---------------------------- MODULE Spec2Model ----------------------------
(* A model of invest-masters (invmst): the evaluation orchestrator          *)
(* (src/src/evaluate.rs), the analyzer dispatch (src/src/master.rs) and the *)
(* streaming completion client (src/src/llm/provider/open_ai.rs,            *)
(* src/src/llm.rs).                                                         *)
EXTENDS Integers, Sequences, FiniteSets, TLC

(***************************************************************************)
(* Bounds of the model.                                                    *)
(***************************************************************************)
\* most fiscal periods (stock_fiscal_metricsets.len()) a pipeline is run with
MaxPeriods == 2

\* the fiscal periods of a sequence that carry a metric, at most
MaxReported == 2

\* most frames of a response whose division into chunks is explored
MaxSplitFrames == 2

\* most chunks such a response arrives in
MaxChunks == 3

\* lines and failed reads of a response whose session is followed to its end
\* under fair scheduling
MaxLiveFrames == 2

\* longest analyzer filter (options.masters) explored
MaxFilter == 2

\* longest payload (in tokens) handed to extract_code_block, alone or wrapped
MaxText == 3

\* longest message list a completion request is built from
MaxMessages == 2

\* lines and failed reads the response byte stream of one session delivers
MaxFrames == 3

(***************************************************************************)
(* master.rs: the Master enum and its string parsing.                      *)
(***************************************************************************)
\* Master::iter(): the variants in declaration order
MasterIter == <<"BenjaminGraham", "WarrenBuffett">>

Masters == {MasterIter[i] : i \in DOMAIN MasterIter}

\* the filter strings explored: every serialization, a case variant, a stranger
Aliases ==
    {"graham", "ben-graham", "buffett", "warren-buffett", "BUFFETT", "Warren-Buffett",
     "unknown"}

\* Master's serialize attributes: the strings each variant is parsed from
Serializations(m) ==
    CASE m = "BenjaminGraham" -> {"graham", "ben-graham"}
      [] m = "WarrenBuffett" -> {"buffett", "warren-buffett"}

\* the comparison of from_str without ascii_case_insensitive
AsciiLowerExact(s) == s

\* #[strum(ascii_case_insensitive)]: the comparison ignores ASCII case
AsciiLower(s) ==
    CASE s = "BUFFETT" -> "buffett"
      [] s = "Warren-Buffett" -> "warren-buffett"
      [] OTHER -> s

\* Master::from_str (strum::EnumString): the serializations of each variant
FromStr(s) ==
    LET l == AsciiLower(s) IN
    CASE l \in Serializations("BenjaminGraham") -> "BenjaminGraham"
      [] l \in Serializations("WarrenBuffett") -> "WarrenBuffett"
      [] OTHER -> "ParseError"

(***************************************************************************)
(* evaluate.rs: run.                                                       *)
(***************************************************************************)
\* the backward_days values explored; fiscal_count = backward_days / 91
BackwardDaysSet == {-100, 90, 91}

\* Rust's integer division truncates toward zero
TruncDiv(a, b) == IF a >= 0 THEN a \div b ELSE -((-a) \div b)

\* let fiscal_count = options.backward_days / 91
FiscalCount(days) == TruncDiv(days, 91)

\* for _ in 0..fiscal_count: the number of iterations of the range
RangeLen(n) == IF n > 0 THEN n ELSE 0

\* run lines 54-72 with the default dropped: an empty filter resolves to nothing
ResolveMastersNoDefault(filter) ==
    IF \E i \in DOMAIN filter : FromStr(filter[i]) = "ParseError"
    THEN [ok |-> FALSE, masters |-> <<>>]
    ELSE [ok |-> TRUE, masters |-> [i \in DOMAIN filter |-> FromStr(filter[i])]]

\* run lines 54-72: every master for an empty filter, else each string parsed,
\* failing on the first that does not parse
ResolveMasters(filter) ==
    IF filter = <<>>
    THEN [ok |-> TRUE, masters |-> MasterIter]
    ELSE IF \E i \in DOMAIN filter : FromStr(filter[i]) = "ParseError"
         THEN [ok |-> FALSE, masters |-> <<>>]
         ELSE [ok |-> TRUE, masters |-> [i \in DOMAIN filter |-> FromStr(filter[i])]]

\* HashMap::insert: a later insert under the same key replaces the value
Insert(f, k, v) == [x \in (DOMAIN f) \cup {k} |-> IF x = k THEN v ELSE f[x]]

EmptyMap == [x \in {} |-> 0]

\* the iteration orders a HashMap with key set S may have
IterOrders(S) ==
    {s \in [1..Cardinality(S) -> S] : \A i, j \in 1..Cardinality(S) : i # j => s[i] # s[j]}

\* the states of a spawned task in which it has terminated
Terminated == {"ok", "err", "panicked", "aborted"}

VARIABLES
    opt_masters,      \* options.masters: the analyzer filter
    backward_days,    \* options.backward_days
    pc,               \* position of run: start, fetch, resolve, spawn, join, done
    fiscal_len,       \* stock_fiscal_metricsets.len()
    netCalls,         \* network requests issued so far (collaborator fetches and completions)
    masters,          \* the resolved Vec<Master>
    tasks,            \* the spawned tasks, in spawn order
    spawnIdx,         \* masters already handled by the spawn loop
    handles,          \* HashMap<Master, JoinHandle>: master -> index into tasks
    joinOrder,        \* the iteration order of handles in the join loop
    joinIdx,          \* handles already awaited by the join loop
    master_analyses,  \* HashMap<Master, MasterAnalysis>
    result            \* what run returned

evars == <<opt_masters, backward_days, pc, fiscal_len, netCalls, masters, tasks,
           spawnIdx, handles, joinOrder, joinIdx, master_analyses, result>>

VARIABLES
    call,        \* position of chat_completion_stream: idle, sent, returned
    response,    \* the HTTP response received, if any
    ret,         \* what chat_completion_stream returned
    capacity,    \* the capacity the event channel is created with
    rx,          \* the Receiver: none, open, closed (close()), dropped
    sender,      \* the Sender moved into the producer task: none, held, dropped
    chan,        \* the events buffered in the channel
    ppc,         \* the producer task: none, next (at stream.next()), lines, error, exit
    whole,       \* chunk_str: the chunk being handled, as it was read
    chunk,       \* the lines of that chunk the for loop has not reached
    mark,        \* the number of events produced before that chunk
    budget,      \* the frames the server may still deliver
    produced,    \* every event the producer has handed to send, in order
    received,    \* every event next() has returned to the consumer, in order
    eos,         \* next() has returned None
    done_seen,   \* the for loop has met a [DONE] payload
    skipped      \* the lines with an event to give that a break left unhandled

svars == <<call, response, ret, capacity, rx, sender, chan, ppc, whole, chunk, mark,
           budget, produced, received, eos, done_seen, skipped>>

VARIABLES
    cpc,                \* position of chat_completion: idle, call, loop, returned
    content,            \* its accumulator content
    reasoning_content,  \* its accumulator reasoning_content
    message             \* what chat_completion returned

cvars == <<cpc, content, reasoning_content, message>>

VARIABLES
    persona,      \* the pipeline that runs: benjamin_graham, peter_lynch, warren_buffett
    metricsets,   \* stock_fiscal_metricsets.len()
    apc,          \* position of analyze: idle, start, request, returned
    drafts,       \* the sub-analyses computed, in order
    messages,     \* the messages built for the completion
    requests,     \* the calls of llm::chat_completion made
    completion,   \* what llm::chat_completion returned
    json_str,     \* the text handed to MasterAnalysis::from_json
    analysis      \* what analyze returned

avars == <<persona, metricsets, apc, drafts, messages, requests, completion, json_str,
           analysis>>

VARIABLES
    payload,   \* the text the answer is built around
    shape,     \* how the answer wraps it: reasoning block, fence, trailing prose
    arg,       \* the argument s of extract_code_block
    text,      \* the local s, rebound by each statement
    xpc        \* position of extract_code_block: idle, tags, start, end, trim, done

xvars == <<payload, shape, arg, text, xpc>>

VARIABLES
    model,                \* self.model: the configured model name, as characters
    enable_think,         \* options.enable_think
    chat_messages,        \* the messages argument of chat_completion_stream
    messages_json_value,  \* the local messages_json_value
    rpc                   \* position in the request building: idle, map, think, built

rvars == <<model, enable_think, chat_messages, messages_json_value, rpc>>

VARIABLES
    stored,     \* the configuration file at CHAT_CONFIG_PATH, or that there is none
    previous,   \* that file as it was when config_chat was called
    protocol,   \* the protocol argument of config_chat
    options,    \* its options argument: a value, or none, for each key
    kpc,        \* position of config_chat: idle, call, returned
    outcome     \* what config_chat returned

kvars == <<stored, previous, protocol, options, kpc, outcome>>

VARIABLES
    sub,                \* the sub-analysis called: consistency, earnings_stability, growth
    fiscal_metricsets,  \* its argument stock_fiscal_metricsets, the newest period first
    spc,                \* its position: idle, call, criteria, returned
    crit,               \* the criterion blocks it has gone through
    sum_scores,         \* its local sum_scores
    sum_weights,        \* its local sum_weights
    evaluated,          \* the criterion blocks whose growth_rates was not empty
    draft               \* the AnalysisDraft it returned (its score)

dvars == <<sub, fiscal_metricsets, spc, crit, sum_scores, sum_weights, evaluated, draft>>

VARIABLES
    frames,      \* the payloads of the frames the server writes, in order
    unread,      \* the bytes of the response not yet read, in pieces
    chunks,      \* the chunks stream.next() has given so far
    lines_left,  \* chunk_str.lines(): the lines the for loop has not reached
    emitted,     \* the events sent, each with the frame and the chunk it came from
    hpc,         \* the producer: idle, next, lines, ended; returned after the fold
    reply        \* what chat_completion makes of the events

hvars == <<frames, unread, chunks, lines_left, emitted, hpc, reply>>

\* the state of the parts around the completion client
ovars == <<kvars, dvars, hvars>>

vars == <<evars, svars, cvars, avars, xvars, rvars, ovars>>

\* the state outside the orchestrator, and outside the streaming session
nevars == <<svars, cvars, avars, xvars, rvars, ovars>>

nsvars == <<evars, cvars, avars, xvars, rvars, ovars>>

\* the state outside a buffered completion and its streaming session
ncvars == <<evars, avars, xvars, rvars, ovars>>

\* the state outside an analyzer pipeline
navars == <<evars, svars, cvars, xvars, rvars, ovars>>

\* the state outside a call of extract_code_block
nxvars == <<evars, svars, cvars, avars, rvars, ovars>>

\* the state outside the building of a request body
nrvars == <<evars, svars, cvars, avars, xvars, ovars>>

\* the state of the core, which the collaborators do not touch
corevars == <<evars, svars, cvars, avars, xvars, rvars>>

\* the state outside a call of config_chat
nkvars == <<corevars, dvars, hvars>>

\* the state outside a call of a scored sub-analysis
ndvars == <<corevars, kvars, hvars>>

\* the state outside the reading of a response in chunks
nhvars == <<corevars, kvars, dvars>>

NoResult == [kind |-> "none"]

\* Err(e), with the task the error value came from (0: run itself)
Err(code, origin) == [kind |-> "Err", error |-> code, origin |-> origin]

\* the MasterAnalysis value task t returned
Verdict(t) == [by |-> t]

Filters == UNION {[1..n -> Aliases] : n \in 0..MaxFilter}

InitEval ==
    /\ opt_masters \in Filters
    /\ backward_days \in BackwardDaysSet
    /\ pc = "start"
    /\ fiscal_len = 0
    /\ netCalls = 0
    /\ masters = <<>>
    /\ tasks = <<>>
    /\ spawnIdx = 0
    /\ handles = EmptyMap
    /\ joinOrder = <<>>
    /\ joinIdx = 0
    /\ master_analyses = EmptyMap
    /\ result = NoResult

\* run line 28: Ticker::from_str(ticker)?
ParseTicker ==
    /\ pc = "start"
    /\ \E ok \in BOOLEAN :
         IF ok
         THEN pc' = "fetch" /\ result' = result
         ELSE pc' = "done" /\ result' = Err("Invalid", 0)
    /\ UNCHANGED <<opt_masters, backward_days, fiscal_len, netCalls, masters, tasks,
                   spawnIdx, handles, joinOrder, joinIdx, master_analyses>>
    /\ UNCHANGED nevars

\* the collaborator requests of run lines 31-51: info, events, daily valuations,
\* then one per fiscal quarter
FetchTotal(days) == 3 + RangeLen(FiscalCount(days))

\* the fetches with a failure kept aside and the call going on to the analyzers
FetchSnapshotDeferred ==
    /\ pc = "fetch"
    /\ \E n \in 1..FetchTotal(backward_days), failed \in BOOLEAN :
         /\ (~failed) => n = FetchTotal(backward_days)
         /\ netCalls' = netCalls + n
         /\ pc' = "resolve"
         /\ result' = IF failed THEN Err("HttpRequestError", 0) ELSE result
         /\ fiscal_len' = IF failed THEN (IF n > 3 THEN n - 4 ELSE 0)
                          ELSE RangeLen(FiscalCount(backward_days))
    /\ UNCHANGED <<opt_masters, backward_days, masters, tasks, spawnIdx, handles,
                   joinOrder, joinIdx, master_analyses>>
    /\ UNCHANGED nevars

\* run lines 31-52: the fetches, each of which may fail and end the call
FetchSnapshot ==
    /\ pc = "fetch"
    /\ \E n \in 1..FetchTotal(backward_days), failed \in BOOLEAN :
         /\ (~failed) => n = FetchTotal(backward_days)
         /\ netCalls' = netCalls + n
         /\ IF failed
            THEN /\ pc' = "done"
                 /\ result' = Err("HttpRequestError", 0)
                 /\ fiscal_len' = IF n > 3 THEN n - 4 ELSE 0
            ELSE /\ pc' = "resolve"
                 /\ result' = result
                 /\ fiscal_len' = RangeLen(FiscalCount(backward_days))
    /\ UNCHANGED <<opt_masters, backward_days, masters, tasks, spawnIdx, handles,
                   joinOrder, joinIdx, master_analyses>>
    /\ UNCHANGED nevars

\* run lines 54-72
Resolve ==
    /\ pc = "resolve"
    /\ LET r == ResolveMasters(opt_masters) IN
         IF r.ok
         THEN masters' = r.masters /\ pc' = "spawn" /\ result' = result
         ELSE masters' = masters /\ pc' = "done" /\ result' = Err("NotExists", 0)
    /\ UNCHANGED <<opt_masters, backward_days, fiscal_len, netCalls, tasks, spawnIdx,
                   handles, joinOrder, joinIdx, master_analyses>>
    /\ UNCHANGED nevars

\* a task spawned with an empty snapshot of its own instead of a clone
NewTaskNoClone(m) ==
    [master |-> m, status |-> "spawned", error |-> "none", requests |-> 0,
     stock_fiscal_metricsets |-> 0]

\* run lines 81-97: the clones of the snapshot (of which the model keeps the
\* number of fiscal periods) are moved into the async block, and tokio::spawn
\* makes a task that has not been polled yet
NewTask(m) ==
    [master |-> m, status |-> "spawned", error |-> "none", requests |-> 0,
     stock_fiscal_metricsets |-> fiscal_len]

\* run lines 75-98, one iteration: spawn the task, insert its handle
SpawnNext ==
    /\ pc = "spawn"
    /\ spawnIdx < Len(masters)
    /\ LET m == masters[spawnIdx + 1] IN
         /\ tasks' = Append(tasks, NewTask(m))
         /\ handles' = Insert(handles, m, Len(tasks) + 1)
    /\ spawnIdx' = spawnIdx + 1
    /\ UNCHANGED <<opt_masters, backward_days, pc, fiscal_len, netCalls, masters,
                   joinOrder, joinIdx, master_analyses, result>>
    /\ UNCHANGED nevars

\* run line 101: the for loop takes the HashMap's iteration order
BeginJoin ==
    /\ pc = "spawn"
    /\ spawnIdx = Len(masters)
    /\ joinOrder' \in IterOrders(DOMAIN handles)
    /\ pc' = "join"
    /\ UNCHANGED <<opt_masters, backward_days, fiscal_len, netCalls, masters, tasks,
                   spawnIdx, handles, joinIdx, master_analyses, result>>
    /\ UNCHANGED nevars

\* handle.await?? with the JoinError unwrapped instead of converted
JoinOutcomeUnwrap(ts, t) ==
    CASE ts[t].status = "ok" -> [kind |-> "Ok", value |-> Verdict(t)]
      [] ts[t].status = "err" -> Err(ts[t].error, t)
      [] OTHER -> [kind |-> "Panic", origin |-> t]

\* run line 102: handle.await?? : a JoinError (panicked or aborted task) becomes
\* ConcurrentError (error.rs line 5), the task's own Err is returned as it is
JoinOutcome(ts, t) ==
    CASE ts[t].status = "ok" -> [kind |-> "Ok", value |-> Verdict(t)]
      [] ts[t].status = "err" -> Err(ts[t].error, t)
      [] OTHER -> Err("ConcurrentError", t)

\* the early return with the tasks behind the dropped handles aborted
DropHandlesAbort(ts, dropped) ==
    [t \in DOMAIN ts |->
        IF t \in dropped /\ ts[t].status \notin Terminated
        THEN [ts[t] EXCEPT !.status = "aborted"]
        ELSE ts[t]]

\* run line 102, the early return: the JoinHandles still in the iterator are
\* dropped, which detaches their tasks and leaves them running
DropHandles(ts, dropped) == ts

\* the handle awaited next if the loop took whichever remaining task has
\* terminated first
AwaitedFirstFinished(order, idx, hs, ts) ==
    LET fin == {i \in (idx + 1)..Len(order) : ts[hs[order[i]]].status \in Terminated}
    IN IF fin = {} THEN order[idx + 1]
       ELSE order[CHOOSE i \in fin : \A j \in fin : i >= j]

\* run line 101: for (master, handle) in handles takes the entries in the
\* iteration order of the map, whatever the state of their tasks
Awaited(order, idx, hs, ts) == order[idx + 1]

\* run lines 101-104, one iteration
JoinNext ==
    /\ pc = "join"
    /\ joinIdx < Len(joinOrder)
    /\ LET m == Awaited(joinOrder, joinIdx, handles, tasks)
           t == handles[m]
           o == JoinOutcome(tasks, t)
           later == {handles[joinOrder[i]] : i \in (joinIdx + 2)..Len(joinOrder)}
       IN
         /\ tasks[t].status \in Terminated
         /\ IF o.kind = "Ok"
            THEN /\ master_analyses' = Insert(master_analyses, m, o.value)
                 /\ UNCHANGED <<pc, result, tasks>>
            ELSE /\ result' = o
                 /\ pc' = "done"
                 /\ tasks' = DropHandles(tasks, later)
                 /\ UNCHANGED master_analyses
    /\ joinIdx' = joinIdx + 1
    /\ UNCHANGED <<opt_masters, backward_days, fiscal_len, netCalls, masters, spawnIdx,
                   handles, joinOrder>>
    /\ UNCHANGED nevars

\* run line 106
ReturnOk ==
    /\ pc = "join"
    /\ joinIdx = Len(joinOrder)
    /\ result' = [kind |-> "Ok", master_analyses |-> master_analyses]
    /\ pc' = "done"
    /\ UNCHANGED <<opt_masters, backward_days, fiscal_len, netCalls, masters, tasks,
                   spawnIdx, handles, joinOrder, joinIdx, master_analyses>>
    /\ UNCHANGED nevars

(***************************************************************************)
(* master.rs: Master::analyze, run by each spawned task.                   *)
(***************************************************************************)
\* Master::analyze up to its completion request: BenjaminGraham is todo!(),
\* WarrenBuffett fails with NoData on an empty metric sequence and otherwise
\* sends its completion request
AnalyzeStartHangs(task, metrics_len) ==
    CASE task.master = "BenjaminGraham" -> [task EXCEPT !.status = "pending"]
      [] task.master = "WarrenBuffett" /\ metrics_len = 0 ->
            [task EXCEPT !.status = "err", !.error = "NoData"]
      [] OTHER -> [task EXCEPT !.status = "requesting", !.requests = @ + 1]

AnalyzeStart(task, metrics_len) ==
    CASE task.master = "BenjaminGraham" -> [task EXCEPT !.status = "panicked"]
      [] task.master = "WarrenBuffett" /\ metrics_len = 0 ->
            [task EXCEPT !.status = "err", !.error = "NoData"]
      [] OTHER -> [task EXCEPT !.status = "requesting", !.requests = @ + 1]

\* the task is polled for the first time
TaskStart(t) ==
    /\ t \in DOMAIN tasks
    /\ tasks[t].status = "spawned"
    /\ tasks' = [tasks EXCEPT ![t] = AnalyzeStart(tasks[t], tasks[t].stock_fiscal_metricsets)]
    /\ netCalls' = netCalls + tasks'[t].requests
    /\ UNCHANGED <<opt_masters, backward_days, pc, fiscal_len, masters, spawnIdx,
                   handles, joinOrder, joinIdx, master_analyses, result>>
    /\ UNCHANGED nevars

\* what the completion and the parsing of its answer can give
\* (warren_buffett.rs lines 63-69): a provider failure, an answer that does not
\* parse into a MasterAnalysis, or the analysis
AnalyzeOutcomes == {"HttpStatusError", "Required", "ok"}

\* the task puts its analysis into the result map itself
TaskFinishInserts(t) ==
    /\ t \in DOMAIN tasks
    /\ tasks[t].status = "requesting"
    /\ \E o \in AnalyzeOutcomes :
         /\ tasks' = [tasks EXCEPT ![t] =
                         IF o = "ok"
                         THEN [@ EXCEPT !.status = "ok"]
                         ELSE [@ EXCEPT !.status = "err", !.error = o]]
         /\ master_analyses' =
               IF o = "ok" THEN Insert(master_analyses, tasks[t].master, Verdict(t))
               ELSE master_analyses
    /\ UNCHANGED <<opt_masters, backward_days, pc, fiscal_len, netCalls, masters,
                   spawnIdx, handles, joinOrder, joinIdx, result>>
    /\ UNCHANGED nevars

\* the completion returns and the answer is parsed
TaskFinish(t) ==
    /\ t \in DOMAIN tasks
    /\ tasks[t].status = "requesting"
    /\ \E o \in AnalyzeOutcomes :
         tasks' = [tasks EXCEPT ![t] =
                      IF o = "ok"
                      THEN [@ EXCEPT !.status = "ok"]
                      ELSE [@ EXCEPT !.status = "err", !.error = o]]
    /\ UNCHANGED <<opt_masters, backward_days, pc, fiscal_len, netCalls, masters,
                   spawnIdx, handles, joinOrder, joinIdx, master_analyses, result>>
    /\ UNCHANGED nevars

NextEval ==
    \/ ParseTicker
    \/ FetchSnapshot
    \/ Resolve
    \/ SpawnNext
    \/ BeginJoin
    \/ JoinNext
    \/ ReturnOk
    \/ \E t \in 1..(MaxFilter + 1) : TaskStart(t)
    \/ \E t \in 1..(MaxFilter + 1) : TaskFinish(t)

(***************************************************************************)
(* llm/provider/open_ai.rs: chat_completion_stream and its producer task;  *)
(* llm.rs: ChatCompletionStream.                                           *)
(***************************************************************************)
\* lib.rs: static CHANNEL_BUFFER_DEFAULT
CHANNEL_BUFFER_DEFAULT == 64

\* the capacities explored: the default and the smallest an mpsc channel takes
Capacities == {1, CHANNEL_BUFFER_DEFAULT}

\* serde_json values at choices[0].delta.<field>: a string, or anything else
\* (indexing a missing key gives Value::Null)
JNull == [type |-> "null", text |-> ""]

JStr(t) == [type |-> "string", text |-> t]

\* Value::as_str is Some exactly for a JSON string
IsStr(v) == v.type = "string"

\* the payloads after "data: ": a JSON object with its two delta fields, text
\* that is not JSON, and the literal [DONE]
Delta(c, r) == [kind |-> "json", content |-> c, reasoning_content |-> r]

Malformed == [kind |-> "malformed", content |-> JNull, reasoning_content |-> JNull]

Done == [kind |-> "[DONE]", content |-> JNull, reasoning_content |-> JNull]

\* a line that starts with "data: "
DataLine(p) == [data |-> TRUE, payload |-> p]

\* a line that does not (the blank line between frames)
BlankLine == [data |-> FALSE, payload |-> Malformed]

\* the lines a chunk may hold (a delta's text may be the empty string)
Lines ==
    {DataLine(Delta(JStr("A"), JNull)),
     DataLine(Delta(JStr("B"), JStr("R"))),
     DataLine(Delta(JNull, JStr("R"))),
     DataLine(Delta(JNull, JStr(""))),
     DataLine(Delta(JNull, JNull)),
     DataLine(Malformed),
     DataLine(Done),
     BlankLine}

\* ChatCompletionEvent
Content(t) == [type |-> "Content", text |-> t]

ReasoningContent(t) == [type |-> "ReasoningContent", text |-> t]

ErrorEvent(e) == [type |-> "Error", text |-> e]

\* the for loop body with the two delta fields tried in the other order
LineStepReasoningFirst(line) ==
    IF ~line.data THEN [break |-> FALSE, events |-> <<>>]
    ELSE IF line.payload.kind = "[DONE]" THEN [break |-> TRUE, events |-> <<>>]
    ELSE IF line.payload.kind = "malformed"
         THEN [break |-> FALSE, events |-> <<ErrorEvent("SerdeJsonError")>>]
    ELSE IF IsStr(line.payload.reasoning_content)
         THEN [break |-> FALSE,
               events |-> <<ReasoningContent(line.payload.reasoning_content.text)>>]
    ELSE IF IsStr(line.payload.content)
         THEN [break |-> FALSE, events |-> <<Content(line.payload.content.text)>>]
    ELSE [break |-> FALSE, events |-> <<>>]

\* the for loop body with a malformed payload ending the loop over the chunk
LineStepMalformedBreaks(line) ==
    IF ~line.data THEN [break |-> FALSE, events |-> <<>>]
    ELSE IF line.payload.kind = "[DONE]" THEN [break |-> TRUE, events |-> <<>>]
    ELSE IF line.payload.kind = "malformed"
         THEN [break |-> TRUE, events |-> <<ErrorEvent("SerdeJsonError")>>]
    ELSE IF IsStr(line.payload.content)
         THEN [break |-> FALSE, events |-> <<Content(line.payload.content.text)>>]
    ELSE IF IsStr(line.payload.reasoning_content)
         THEN [break |-> FALSE,
               events |-> <<ReasoningContent(line.payload.reasoning_content.text)>>]
    ELSE [break |-> FALSE, events |-> <<>>]

\* the for loop body with [DONE] skipped like a line without an event
LineStepDoneContinues(line) ==
    IF ~line.data THEN [break |-> FALSE, events |-> <<>>]
    ELSE IF line.payload.kind = "[DONE]" THEN [break |-> FALSE, events |-> <<>>]
    ELSE IF line.payload.kind = "malformed"
         THEN [break |-> FALSE, events |-> <<ErrorEvent("SerdeJsonError")>>]
    ELSE IF IsStr(line.payload.content)
         THEN [break |-> FALSE, events |-> <<Content(line.payload.content.text)>>]
    ELSE IF IsStr(line.payload.reasoning_content)
         THEN [break |-> FALSE,
               events |-> <<ReasoningContent(line.payload.reasoning_content.text)>>]
    ELSE [break |-> FALSE, events |-> <<>>]

\* open_ai.rs lines 115-149, the body of the for loop for one line: whether it
\* breaks out of the loop, and the event it sends
LineStep(line) ==
    IF ~line.data THEN [break |-> FALSE, events |-> <<>>]
    ELSE IF line.payload.kind = "[DONE]" THEN [break |-> TRUE, events |-> <<>>]
    ELSE IF line.payload.kind = "malformed"
         THEN [break |-> FALSE, events |-> <<ErrorEvent("SerdeJsonError")>>]
    ELSE IF IsStr(line.payload.content)
         THEN [break |-> FALSE, events |-> <<Content(line.payload.content.text)>>]
    ELSE IF IsStr(line.payload.reasoning_content)
         THEN [break |-> FALSE,
               events |-> <<ReasoningContent(line.payload.reasoning_content.text)>>]
    ELSE [break |-> FALSE, events |-> <<>>]

\* a send that never waits: the event is dropped when the buffer is full
SendNoWait(ch, cap, rxs, e) ==
    [ready |-> TRUE,
     chan |-> IF rxs = "open" /\ Len(ch) < cap THEN Append(ch, e) ELSE ch]

\* a send that takes no notice of the receiver: it waits for room and buffers
\* the event whether or not the receiver is closed
SendIgnoringClose(ch, cap, rxs, e) ==
    [ready |-> Len(ch) < cap, chan |-> Append(ch, e)]

\* sender.send(e).await with its result ignored (let _ =): it completes at once
\* with an error when the receiver is closed or dropped, and otherwise waits
\* for room in the buffer
Send(ch, cap, rxs, e) ==
    [ready |-> rxs # "open" \/ Len(ch) < cap,
     chan |-> IF rxs = "open" THEN Append(ch, e) ELSE ch]

\* every status answered with the success branch
IsSuccessAlways(status) == TRUE

\* StatusCode::is_success: 200..=299
IsSuccess(status) == status >= 200 /\ status <= 299

NoResponse == [status |-> 0, body |-> ""]

NoRet == [kind |-> "none"]

Statuses == {200, 301, 404}

Bodies == {"", "rate limited"}

\* the chunks of n lines
ChunksOf(n) == [1..n -> Lines]

InitStream ==
    /\ call = "idle"
    /\ response = NoResponse
    /\ ret = NoRet
    /\ capacity \in Capacities
    /\ rx = "none"
    /\ sender = "none"
    /\ chan = <<>>
    /\ ppc = "none"
    /\ whole = <<>>
    /\ chunk = <<>>
    /\ mark = 0
    /\ budget = MaxFrames
    /\ produced = <<>>
    /\ received = <<>>
    /\ eos = FALSE
    /\ done_seen = FALSE
    /\ skipped = 0

\* chat_completion_stream lines 69-103: the URL is joined, the client built and
\* the request sent; each may fail and return the error
SendRequest ==
    /\ call = "idle"
    /\ \/ \E e \in {"UrlParseError", "HttpRequestError"} :
            /\ ret' = [kind |-> "Err", error |-> e, status |-> 0, body |-> ""]
            /\ call' = "returned"
            /\ response' = response
       \/ \E st \in Statuses, b \in Bodies :
            /\ response' = [status |-> st, body |-> b]
            /\ call' = "sent"
            /\ ret' = ret
    /\ UNCHANGED <<capacity, rx, sender, chan, ppc, whole, chunk, mark, budget,
                   produced, received, eos>>
    /\ UNCHANGED <<done_seen, skipped>>
    /\ UNCHANGED nsvars

\* the channel created and the producer spawned before the status is looked at
CheckStatusSpawnsFirst ==
    /\ call = "sent"
    /\ call' = "returned"
    /\ response' = NoResponse
    /\ rx' = "open"
    /\ sender' = "held"
    /\ ppc' = "next"
    /\ IF IsSuccess(response.status)
       THEN ret' = [kind |-> "Ok", error |-> "", status |-> response.status, body |-> ""]
       ELSE \E readable \in BOOLEAN :
                 ret' = [kind |-> "Err", error |-> "HttpStatusError",
                         status |-> response.status,
                         body |-> IF readable THEN response.body ELSE ""]
    /\ UNCHANGED <<capacity, chan, whole, chunk, mark, budget, produced, received, eos>>
    /\ UNCHANGED <<done_seen, skipped>>
    /\ UNCHANGED nsvars

\* chat_completion_stream lines 105-165: on a success status the channel is
\* created, the producer spawned with the response moved into it and the stream
\* returned; otherwise the error carries the status and the body text (empty
\* when it cannot be read)
CheckStatus ==
    /\ call = "sent"
    /\ call' = "returned"
    /\ response' = NoResponse
    /\ IF IsSuccess(response.status)
       THEN /\ rx' = "open"
            /\ sender' = "held"
            /\ ppc' = "next"
            /\ ret' = [kind |-> "Ok", error |-> "", status |-> response.status, body |-> ""]
       ELSE /\ \E readable \in BOOLEAN :
                 ret' = [kind |-> "Err", error |-> "HttpStatusError",
                         status |-> response.status,
                         body |-> IF readable THEN response.body ELSE ""]
            /\ UNCHANGED <<rx, sender, ppc>>
    /\ UNCHANGED <<capacity, chan, whole, chunk, mark, budget, produced, received, eos>>
    /\ UNCHANGED <<done_seen, skipped>>
    /\ UNCHANGED nsvars

\* producer line 110, stream.next().await gives Some(Ok(chunk))
ProducerReadChunk ==
    /\ ppc = "next"
    /\ budget > 0
    /\ \E n \in 1..budget :
         \E c \in ChunksOf(n) :
            /\ whole' = c
            /\ chunk' = c
            /\ budget' = budget - n
    /\ mark' = Len(produced)
    /\ ppc' = "lines"
    /\ UNCHANGED <<call, response, ret, capacity, rx, sender, chan, produced,
                   received, eos>>
    /\ UNCHANGED <<done_seen, skipped>>
    /\ UNCHANGED nsvars

\* producer line 110, stream.next().await gives Some(Err(err))
ProducerReadError ==
    /\ ppc = "next"
    /\ budget > 0
    /\ budget' = budget - 1
    /\ whole' = <<>>
    /\ chunk' = <<>>
    /\ mark' = Len(produced)
    /\ ppc' = "error"
    /\ UNCHANGED <<call, response, ret, capacity, rx, sender, chan, produced,
                   received, eos>>
    /\ UNCHANGED <<done_seen, skipped>>
    /\ UNCHANGED nsvars

\* producer line 110, stream.next().await gives None: the loop and the task
\* end, and the Sender is dropped
ProducerEnd ==
    /\ ppc = "next"
    /\ ppc' = "exit"
    /\ sender' = "dropped"
    /\ UNCHANGED <<call, response, ret, capacity, rx, chan, whole, chunk, mark,
                   budget, produced, received, eos>>
    /\ UNCHANGED <<done_seen, skipped>>
    /\ UNCHANGED nsvars

\* the number of lines of ls for which the loop body would send an event
Emitting(ls) == Cardinality({i \in DOMAIN ls : LineStep(ls[i]).events # <<>>})

\* producer lines 115-149: the for loop handles the next line of the chunk
ProducerLine ==
    /\ ppc = "lines"
    /\ LET step == LineStep(Head(chunk))
           rest == IF step.break THEN <<>> ELSE Tail(chunk)
       IN
         /\ IF step.events = <<>>
            THEN UNCHANGED <<chan, produced>>
            ELSE LET s == Send(chan, capacity, rx, step.events[1]) IN
                   /\ s.ready
                   /\ chan' = s.chan
                   /\ produced' = Append(produced, step.events[1])
         /\ chunk' = rest
         /\ ppc' = IF rest = <<>> THEN "next" ELSE "lines"
         /\ whole' = IF rest = <<>> THEN <<>> ELSE whole
         /\ done_seen' = (done_seen \/ step.break)
         /\ skipped' = IF step.break THEN skipped + Emitting(Tail(chunk)) ELSE skipped
    /\ UNCHANGED <<call, response, ret, capacity, rx, sender, mark, budget, received, eos>>
    /\ UNCHANGED nsvars

\* producer lines 151-153: the read error is sent as an Error event
ProducerSendError ==
    /\ ppc = "error"
    /\ LET s == Send(chan, capacity, rx, ErrorEvent("HttpRequestError")) IN
         /\ s.ready
         /\ chan' = s.chan
    /\ produced' = Append(produced, ErrorEvent("HttpRequestError"))
    /\ ppc' = "next"
    /\ UNCHANGED <<call, response, ret, capacity, rx, sender, whole, chunk, mark,
                   budget, received, eos>>
    /\ UNCHANGED <<done_seen, skipped>>
    /\ UNCHANGED nsvars

\* next() built on try_recv: an empty buffer reads as the end of the stream
ConsumerNextNoWait ==
    /\ rx \in {"open", "closed"}
    /\ ~eos
    /\ IF chan # <<>>
       THEN /\ received' = Append(received, Head(chan))
            /\ chan' = Tail(chan)
            /\ eos' = eos
       ELSE /\ eos' = TRUE
            /\ UNCHANGED <<received, chan>>
    /\ UNCHANGED <<call, response, ret, capacity, rx, sender, ppc, whole, chunk,
                   mark, budget, produced>>
    /\ UNCHANGED <<done_seen, skipped>>
    /\ UNCHANGED nsvars

\* llm.rs ChatCompletionStream::next: receiver.recv().await gives the oldest
\* buffered event, or None once the buffer is empty and the channel is closed
\* (the Sender dropped, or close() called)
ConsumerNext ==
    /\ rx \in {"open", "closed"}
    /\ ~eos
    /\ IF chan # <<>>
       THEN /\ received' = Append(received, Head(chan))
            /\ chan' = Tail(chan)
            /\ eos' = eos
       ELSE /\ sender = "dropped" \/ rx = "closed"
            /\ eos' = TRUE
            /\ UNCHANGED <<received, chan>>
    /\ UNCHANGED <<call, response, ret, capacity, rx, sender, ppc, whole, chunk,
                   mark, budget, produced>>
    /\ UNCHANGED <<done_seen, skipped>>
    /\ UNCHANGED nsvars

\* llm.rs ChatCompletionStream::close: receiver.close()
ConsumerClose ==
    /\ rx = "open"
    /\ rx' = "closed"
    /\ UNCHANGED <<call, response, ret, capacity, sender, chan, ppc, whole, chunk,
                   mark, budget, produced, received, eos>>
    /\ UNCHANGED <<done_seen, skipped>>
    /\ UNCHANGED nsvars

\* the ChatCompletionStream is dropped, and the buffered events with it
ConsumerDrop ==
    /\ rx \in {"open", "closed"}
    /\ rx' = "dropped"
    /\ chan' = <<>>
    /\ UNCHANGED <<call, response, ret, capacity, sender, ppc, whole, chunk, mark,
                   budget, produced, received, eos>>
    /\ UNCHANGED <<done_seen, skipped>>
    /\ UNCHANGED nsvars

ProducerStep ==
    \/ ProducerReadChunk
    \/ ProducerReadError
    \/ ProducerEnd
    \/ ProducerLine
    \/ ProducerSendError

NextStream ==
    \/ SendRequest
    \/ CheckStatus
    \/ ProducerStep
    \/ ConsumerNext
    \/ ConsumerClose
    \/ ConsumerDrop

\* a session at channel capacity 1 whose consumer keeps the stream open

NextBackpressure ==
    \/ SendRequest
    \/ CheckStatus
    \/ ProducerStep
    \/ ConsumerNext

(***************************************************************************)
(* llm/provider/open_ai.rs: chat_completion, the buffered call built on    *)
(* the stream.                                                             *)
(***************************************************************************)
\* Option<String>
None == [some |-> FALSE, text |-> ""]

Some(t) == [some |-> TRUE, text |-> t]

\* the reasoning field filled in whenever a reasoning delta arrived at all
ReasoningOfAlwaysSome(rc) == Some(rc)

\* chat_completion lines 56-60: None for an empty reasoning_content
ReasoningOf(rc) == IF rc = "" THEN None ELSE Some(rc)

\* the message of chat_completion lines 53-61
BotMessage(c, rc) ==
    [kind |-> "Ok", role |-> "Bot", content |-> c, reasoning |-> ReasoningOf(rc)]

\* the match with the Error arm logging the error and carrying on
MatchEventSkipsError(c, rc, e) ==
    CASE e.type = "Content" ->
            [return |-> FALSE, content |-> c \o e.text, reasoning_content |-> rc, error |-> ""]
      [] e.type = "ReasoningContent" ->
            [return |-> FALSE, content |-> c, reasoning_content |-> rc \o e.text, error |-> ""]
      [] OTHER ->
            [return |-> FALSE, content |-> c, reasoning_content |-> rc, error |-> ""]

\* chat_completion lines 40-50, the match on one event: push_str on the
\* accumulator of the event's kind, or return Err(err)
MatchEvent(c, rc, e) ==
    CASE e.type = "Content" ->
            [return |-> FALSE, content |-> c \o e.text, reasoning_content |-> rc, error |-> ""]
      [] e.type = "ReasoningContent" ->
            [return |-> FALSE, content |-> c, reasoning_content |-> rc \o e.text, error |-> ""]
      [] OTHER ->
            [return |-> TRUE, content |-> c, reasoning_content |-> rc, error |-> e.text]

NoMessage == [kind |-> "none"]

\* chat_completion line 38: self.chat_completion_stream(messages, options).await?
CompleteStart ==
    /\ cpc = "call"
    /\ call = "returned"
    /\ IF ret.kind = "Err"
       THEN /\ message' = [kind |-> "Err", error |-> ret.error]
            /\ cpc' = "returned"
       ELSE /\ message' = message
            /\ cpc' = "loop"
    /\ UNCHANGED <<content, reasoning_content>>
    /\ UNCHANGED svars
    /\ UNCHANGED ncvars

\* chat_completion lines 39-61, one turn of the while let: stream.next().await,
\* then the match on the event, or the message once next() gives None; the
\* stream is a local and is dropped when the function returns
CompleteNext ==
    /\ cpc = "loop"
    /\ IF chan # <<>>
       THEN LET m == MatchEvent(content, reasoning_content, Head(chan)) IN
              /\ received' = Append(received, Head(chan))
              /\ eos' = eos
              /\ content' = m.content
              /\ reasoning_content' = m.reasoning_content
              /\ IF m.return
                 THEN /\ message' = [kind |-> "Err", error |-> m.error]
                      /\ cpc' = "returned"
                      /\ rx' = "dropped"
                      /\ chan' = <<>>
                 ELSE /\ message' = message
                      /\ cpc' = cpc
                      /\ rx' = rx
                      /\ chan' = Tail(chan)
       ELSE /\ sender = "dropped"
            /\ eos' = TRUE
            /\ message' = BotMessage(content, reasoning_content)
            /\ cpc' = "returned"
            /\ rx' = "dropped"
            /\ UNCHANGED <<received, chan, content, reasoning_content>>
    /\ UNCHANGED <<call, response, ret, capacity, sender, ppc, whole, chunk, mark,
                   budget, produced, done_seen, skipped>>
    /\ UNCHANGED ncvars

NextComplete ==
    \/ SendRequest
    \/ CheckStatus
    \/ ProducerStep
    \/ CompleteStart
    \/ CompleteNext

\* no buffered completion in progress
CompleteIdle ==
    /\ cpc = "idle"
    /\ content = ""
    /\ reasoning_content = ""
    /\ message = NoMessage

\* chat_completion lines 35-36: the call is entered with empty accumulators
InitComplete ==
    /\ cpc = "call"
    /\ content = ""
    /\ reasoning_content = ""
    /\ message = NoMessage

(***************************************************************************)
(* master.rs: MasterAnalysis::from_json; financial.rs: Prospect.           *)
(***************************************************************************)
\* a key the JSON object does not have
Absent == [type |-> "absent", text |-> ""]

\* serde_json numbers: integers, and the others (as_u64 is None for them)
JInt(n) == [type |-> "integer", text |-> "", num |-> n]

JFloat == [type |-> "float", text |-> "20.5"]

\* the prospect strings explored: the three variants in mixed case, a stranger
ProspectTexts == {"Bullish", "bearish", "NEUTRAL", "Strong Buy"}

\* #[strum(ascii_case_insensitive)] on Prospect
ProspectLower(t) ==
    CASE t = "Bullish" -> "bullish"
      [] t = "NEUTRAL" -> "neutral"
      [] OTHER -> t

\* Prospect::from_str without ascii_case_insensitive: only the variant names
ProspectFromStrCaseSensitive(t) ==
    CASE t = "Bullish" -> "Bullish"
      [] t = "Bearish" -> "Bearish"
      [] t = "Neutral" -> "Neutral"
      [] OTHER -> "ParseError"

\* Prospect::from_str (strum::EnumString)
ProspectFromStr(t) ==
    LET l == ProspectLower(t) IN
    CASE l = "bullish" -> "Bullish"
      [] l = "bearish" -> "Bearish"
      [] l = "neutral" -> "Neutral"
      [] OTHER -> "ParseError"

ProspectValues == {Absent, JNull, JInt(1)} \cup {JStr(t) : t \in ProspectTexts}

RatingValues == {Absent, JInt(20), JInt(101), JInt(-5), JFloat, JStr("20")}

ExplanationValues == {Absent, JStr("test"), JInt(7)}

\* the texts handed to from_json: JSON objects with each of the three keys
\* absent or holding a value, a JSON value that is no object, and text that is
\* not JSON
JsonObjects ==
    {[kind |-> "object", prospect |-> p, rating |-> r, explanation |-> e] :
        p \in ProspectValues, r \in RatingValues, e \in ExplanationValues}

JsonArray == [kind |-> "array", prospect |-> Absent, rating |-> Absent, explanation |-> Absent]

NotJson == [kind |-> "text", prospect |-> Absent, rating |-> Absent, explanation |-> Absent]

JsonTexts == JsonObjects \cup {JsonArray, NotJson}

\* serde_json's Index: json["key"] is Null for a missing key and for a value
\* that is not an object
Index(j, k) == IF j.kind = "object" /\ j[k].type # "absent" THEN j[k] ELSE JNull

\* Value::as_u64 is Some exactly for a non-negative integer
IsU64(v) == v.type = "integer" /\ v.num >= 0

\* InvmstError values: the kind, and the code of the kinds that carry one
Failure(kind, code) == [kind |-> "Err", error |-> kind, code |-> code]

\* MasterAnalysis::from_json (master.rs lines 69-96)
FromJson(j) ==
    IF j.kind = "text" THEN Failure("SerdeJsonError", "")
    ELSE IF ~IsStr(Index(j, "prospect")) THEN Failure("Required", "PROSPECT_REQUIRED")
    ELSE IF ProspectFromStr(Index(j, "prospect").text) = "ParseError"
         THEN Failure("ParseEnumError", "")
    ELSE IF ~IsU64(Index(j, "rating")) THEN Failure("Required", "RATING_REQUIRED")
    ELSE IF ~IsStr(Index(j, "explanation")) THEN Failure("Required", "EXPLANATION_REQUIRED")
    ELSE [kind |-> "Ok",
          prospect |-> ProspectFromStr(Index(j, "prospect").text),
          rating |-> Index(j, "rating").num,
          explanation |-> Index(j, "explanation").text]

(***************************************************************************)
(* master/benjamin_graham.rs, master/peter_lynch.rs,                       *)
(* master/warren_buffett.rs: analyze.                                      *)
(***************************************************************************)
Personas == {"benjamin_graham", "peter_lynch", "warren_buffett"}

\* the sub-analyses each pipeline computes, in the order it calls them
SubAnalyses(p) ==
    CASE p = "benjamin_graham" ->
            <<"core_valuation", "financial_health", "earnings_stability", "dividend">>
      [] p = "peter_lynch" -> <<"fundamentals", "growth", "valuation">>
      [] OTHER -> <<"fundamentals", "consistency", "moat", "management">>

\* the vec! of messages: the persona's LLM_SYSTEM, then the prompt made of the
\* data_json (basic_information and the drafts) and MASTER_ANALYSIS_JSON_PROMPT
Messages(p, ds) ==
    <<[role |-> "System", content |-> <<p, "LLM_SYSTEM">>, reasoning |-> None],
      [role |-> "User",
       content |-> <<"basic_information">> \o ds \o <<"MASTER_ANALYSIS_JSON_PROMPT">>,
       reasoning |-> None]>>

\* analyze without its is_empty test: the sub-analyses cope with missing data
AnalyzeEntryNoCheck(p, n) ==
    [err |-> FALSE, drafts |-> SubAnalyses(p), messages |-> Messages(p, SubAnalyses(p))]

\* analyze up to its completion request: NoData for an empty metric sequence,
\* else the sub-analyses (none of which fails) and the messages
AnalyzeEntry(p, n) ==
    IF n = 0
    THEN [err |-> TRUE, drafts |-> <<>>, messages |-> <<>>]
    ELSE [err |-> FALSE, drafts |-> SubAnalyses(p), messages |-> Messages(p, SubAnalyses(p))]

NoAnalysis == [kind |-> "none"]

\* the pipeline is entered and runs to its first await that can suspend: the
\* call of llm::chat_completion
AnalyzeBegin ==
    /\ apc = "start"
    /\ LET e == AnalyzeEntry(persona, metricsets) IN
         /\ drafts' = e.drafts
         /\ messages' = e.messages
         /\ IF e.err
            THEN /\ analysis' = Failure("NoData", "NO_STOCK_METRICS")
                 /\ apc' = "returned"
                 /\ requests' = requests
            ELSE /\ analysis' = analysis
                 /\ apc' = "request"
                 /\ requests' = requests + 1
    /\ UNCHANGED <<persona, metricsets, completion, json_str>>
    /\ UNCHANGED navars

\* the errors llm::chat_completion can return: the configuration cannot be
\* loaded (llm.rs line 63), the call fails before a stream exists, or the
\* stream delivers an Error event
CompletionErrors ==
    {"ConfigError", "UrlParseError", "HttpRequestError", "HttpStatusError", "SerdeJsonError"}

\* a failed completion asked for again
AfterCompletionRetries(c, j) ==
    IF c.kind = "Err"
    THEN [again |-> TRUE, analysis |-> NoAnalysis]
    ELSE [again |-> FALSE, analysis |-> FromJson(j)]

\* analyze after the completion returned: the error as it is (the ? operator),
\* or the analysis parsed from the extracted text j
AfterCompletion(c, j) ==
    IF c.kind = "Err"
    THEN [again |-> FALSE, analysis |-> c]
    ELSE [again |-> FALSE, analysis |-> FromJson(j)]

\* llm::chat_completion returns; on a message its content goes through
\* utils::markdown::extract_code_block, whose output may be any text, and
\* from_json
AnalyzeComplete ==
    /\ apc = "request"
    /\ \E c \in {Failure(e, "") : e \in CompletionErrors} \cup {[kind |-> "Ok"]},
          j \in JsonTexts :
         LET a == AfterCompletion(c, j) IN
           /\ c.kind = "Err" => j = NotJson
           /\ completion' = c
           /\ json_str' = IF c.kind = "Err" THEN json_str ELSE j
           /\ IF a.again
              THEN /\ requests' = requests + 1
                   /\ UNCHANGED <<apc, analysis>>
              ELSE /\ analysis' = a.analysis
                   /\ apc' = "returned"
                   /\ requests' = requests
    /\ UNCHANGED <<persona, metricsets, drafts, messages>>
    /\ UNCHANGED navars

NextAnalyze ==
    \/ AnalyzeBegin
    \/ AnalyzeComplete

\* no pipeline in progress
AnalyzeIdle ==
    /\ persona = "warren_buffett"
    /\ metricsets = 0
    /\ apc = "idle"
    /\ drafts = <<>>
    /\ messages = <<>>
    /\ requests = 0
    /\ completion = NoAnalysis
    /\ json_str = NotJson
    /\ analysis = NoAnalysis

\* a pipeline is called with a snapshot
InitAnalyze ==
    /\ persona \in Personas
    /\ metricsets \in 0..MaxPeriods
    /\ apc = "start"
    /\ drafts = <<>>
    /\ messages = <<>>
    /\ requests = 0
    /\ completion = NoAnalysis
    /\ json_str = NotJson
    /\ analysis = NoAnalysis

(***************************************************************************)
(* utils/markdown.rs: extract_code_block. A text is a sequence of tokens:  *)
(* a space, a line break, a run of plain characters, a run of three        *)
(* backticks, an opening tag, a closing tag.                               *)
(***************************************************************************)
\* a run of three backticks
Fence == "fence"

Tokens == {" ", "\n", "x", Fence, "<think>", "</think>"}

\* the class \s of the regexes, and the characters str::trim removes
IsSpace(t) == t \in {" ", "\n"}

\* <[^>]+> : a closing tag matches it as well as an opening tag
IsTag(t) == t \in {"<think>", "</think>"}

\* <\/[^>]+>
IsCloseTag(t) == t = "</think>"

MinOf(S) == CHOOSE x \in S : \A y \in S : x <= y

\* replace_all without a match: the text as it is
KeepXmlTag(t) == t

\* REGEX_XML_TAG.replace_all(s, ""): from the leftmost token matching <[^>]+>
\* that has a closing tag after it, through the first such closing tag (the
\* body is lazy); the search goes on after each match
RECURSIVE ReplaceAllXmlTag(_)
ReplaceAllXmlTag(t) ==
    IF t = <<>> THEN <<>>
    ELSE LET closers == {j \in 2..Len(t) : IsCloseTag(t[j])} IN
         IF IsTag(t[1]) /\ closers # {}
         THEN ReplaceAllXmlTag(SubSeq(t, MinOf(closers) + 1, Len(t)))
         ELSE <<t[1]>> \o ReplaceAllXmlTag(Tail(t))

\* REGEX_CODE_BLOCK_START.replace(s, ""): the lazy prefix, \s*, the first run
\* of three backticks, .* and the \n that ends its line; no match when no line
\* break follows the first fence
ReplaceCodeBlockStart(t) ==
    LET fences == {i \in DOMAIN t : t[i] = Fence} IN
    IF fences = {} THEN t
    ELSE LET breaks == {k \in (MinOf(fences) + 1)..Len(t) : t[k] = "\n"} IN
         IF breaks = {} THEN t
         ELSE SubSeq(t, MinOf(breaks) + 1, Len(t))

\* replace without a match: the text as it is
KeepCodeBlockEnd(t) == t

\* REGEX_CODE_BLOCK_END.replace(s, ""): the whitespace before the first run of
\* three backticks, the backticks, and everything to the end of the text
ReplaceCodeBlockEnd(t) ==
    LET fences == {i \in DOMAIN t : t[i] = Fence} IN
    IF fences = {} THEN t
    ELSE LET f == MinOf(fences)
             from == MinOf({i \in 1..f : \A k \in i..(f - 1) : IsSpace(t[k])})
         IN SubSeq(t, 1, from - 1)

RECURSIVE TrimStart(_)
TrimStart(t) == IF t # <<>> /\ IsSpace(Head(t)) THEN TrimStart(Tail(t)) ELSE t

RECURSIVE TrimEnd(_)
TrimEnd(t) ==
    IF t # <<>> /\ IsSpace(t[Len(t)]) THEN TrimEnd(SubSeq(t, 1, Len(t) - 1)) ELSE t

\* str::trim
Trim(t) == TrimEnd(TrimStart(t))

\* the texts of at most MaxText tokens
ShortTexts == UNION {[1..n -> Tokens] : n \in 0..MaxText}

\* the answers explored: an optional reasoning block (prose, or prose with a
\* fenced snippet), the payload bare or between fence lines (the opening one
\* with or without a language hint), and prose after a closing fence
Shapes ==
    {sh \in [think : {"none", "prose", "snippet"}, fence : {"none", "bare", "hint"},
             prose : BOOLEAN] : sh.prose => sh.fence # "none"}

Bare == [think |-> "none", fence |-> "none", prose |-> FALSE]

ThinkPart(sh) ==
    CASE sh.think = "none" -> <<>>
      [] sh.think = "prose" -> <<"\n", "<think>", "\n", "x", " ", "x", "\n", "</think>", "\n", "\n">>
      [] OTHER -> <<"\n", "<think>", "\n", "x", "\n", Fence, "\n", "x", "\n", Fence, "\n",
                    "</think>", "\n", "\n">>

FencePart(sh, p) ==
    CASE sh.fence = "none" -> p
      [] sh.fence = "bare" -> <<Fence, "\n">> \o p \o <<"\n", Fence>>
      [] OTHER -> <<Fence, "json", "\n">> \o p \o <<"\n", Fence>>

ProsePart(sh) == IF sh.prose THEN <<"\n", "\n", "x", " ", "x", "\n">> ELSE <<>>

\* the answer of shape sh around payload p (the bare shape is p itself)
Build(sh, p) == ThinkPart(sh) \o FencePart(sh, p) \o ProsePart(sh)

\* extract_code_block is called with an answer: any short text as it is, and
\* the wrapped shapes around a payload that has no fence and no opening tag
\* followed by a closing tag
InitExtract ==
    /\ payload \in ShortTexts
    /\ shape \in Shapes
    /\ shape # Bare =>
          /\ \A i \in DOMAIN payload : payload[i] # Fence
          /\ \A i, j \in DOMAIN payload :
                (i < j) => ~(payload[i] = "<think>" /\ payload[j] = "</think>")
    /\ arg = Build(shape, payload)
    /\ text = arg
    /\ xpc = "tags"

\* line 6: let s = REGEX_XML_TAG.replace_all(s, "")
XmlTagStep ==
    /\ xpc = "tags"
    /\ text' = ReplaceAllXmlTag(text)
    /\ xpc' = "start"
    /\ UNCHANGED <<payload, shape, arg>>
    /\ UNCHANGED nxvars

\* line 7: let s = REGEX_CODE_BLOCK_START.replace(&s, "")
CodeBlockStartStep ==
    /\ xpc = "start"
    /\ text' = ReplaceCodeBlockStart(text)
    /\ xpc' = "end"
    /\ UNCHANGED <<payload, shape, arg>>
    /\ UNCHANGED nxvars

\* line 8: let s = REGEX_CODE_BLOCK_END.replace(&s, "")
CodeBlockEndStep ==
    /\ xpc = "end"
    /\ text' = ReplaceCodeBlockEnd(text)
    /\ xpc' = "trim"
    /\ UNCHANGED <<payload, shape, arg>>
    /\ UNCHANGED nxvars

\* line 10: s.trim().to_string()
TrimStep ==
    /\ xpc = "trim"
    /\ text' = Trim(text)
    /\ xpc' = "done"
    /\ UNCHANGED <<payload, shape, arg>>
    /\ UNCHANGED nxvars

NextExtract ==
    \/ XmlTagStep
    \/ CodeBlockStartStep
    \/ CodeBlockEndStep
    \/ TrimStep

\* no extraction in progress
ExtractIdle ==
    /\ payload = <<>>
    /\ shape = Bare
    /\ arg = <<>>
    /\ text = <<>>
    /\ xpc = "idle"

(***************************************************************************)
(* llm/provider/open_ai.rs: the messages of the request body               *)
(* (chat_completion_stream lines 71-86).                                   *)
(***************************************************************************)
\* the model names explored
Models ==
    {<<"q", "w", "e", "n", "3">>, <<"q", "w", "e", "n", "3", "-", "8", "b">>,
     <<"q", "w", "e", "n", "2">>, <<"Q", "w", "e", "n", "3">>, <<"q", "w", "e", "n">>,
     <<"g", "p", "t">>, <<>>}

\* str::starts_with
StartsWith(name, prefix) ==
    Len(name) >= Len(prefix) /\ SubSeq(name, 1, Len(prefix)) = prefix

\* From<Role> for OpenAiRole and its Display
OpenAiRole(role) ==
    CASE role = "User" -> "user"
      [] role = "Bot" -> "assistant"
      [] role = "System" -> "system"

\* the ChatMessage values explored (content is a String, possibly empty)
ChatMessages == [role : {"User", "Bot", "System"}, content : {"", "hi", "why /think"}]

\* chat_message_to_json_value: the content of a ChatMessage is a JSON string
chat_message_to_json_value(m) == [role |-> OpenAiRole(m.role), content |-> JStr(m.content)]

\* the instruction appended to every message instead of the last one
AppendInstructionToAll(name, think, js) ==
    IF StartsWith(name, <<"q", "w", "e", "n", "3">>) /\ js # <<>>
    THEN [i \in DOMAIN js |->
            [js[i] EXCEPT !.content =
                JStr(@.text \o " " \o (IF think THEN "/think" ELSE "/no_think"))]]
    ELSE js

\* lines 75-86: for a qwen3 model and a non-empty list, the content of the
\* last element, when it is a string, becomes "{content_str} {instruction}"
AppendInstruction(name, think, js) ==
    IF StartsWith(name, <<"q", "w", "e", "n", "3">>) /\ js # <<>>
    THEN IF IsStr(js[Len(js)].content)
         THEN [js EXCEPT ![Len(js)].content =
                  JStr(@.text \o " " \o (IF think THEN "/think" ELSE "/no_think"))]
         ELSE js
    ELSE js

InitRequest ==
    /\ model \in Models
    /\ enable_think \in BOOLEAN
    /\ chat_messages \in UNION {[1..n -> ChatMessages] : n \in 0..MaxMessages}
    /\ messages_json_value = <<>>
    /\ rpc = "map"

\* lines 71-74: messages.iter().map(chat_message_to_json_value).collect()
MapMessages ==
    /\ rpc = "map"
    /\ messages_json_value' =
          [i \in DOMAIN chat_messages |-> chat_message_to_json_value(chat_messages[i])]
    /\ rpc' = "think"
    /\ UNCHANGED <<model, enable_think, chat_messages>>
    /\ UNCHANGED nrvars

\* lines 75-86, after which messages_json_value goes into the request body
ThinkInstruction ==
    /\ rpc = "think"
    /\ messages_json_value' = AppendInstruction(model, enable_think, messages_json_value)
    /\ rpc' = "built"
    /\ UNCHANGED <<model, enable_think, chat_messages>>
    /\ UNCHANGED nrvars

NextRequest ==
    \/ MapMessages
    \/ ThinkInstruction

\* no request being built
RequestIdle ==
    /\ model = <<>>
    /\ enable_think = FALSE
    /\ chat_messages = <<>>
    /\ messages_json_value = <<>>
    /\ rpc = "idle"

(***************************************************************************)
(* llm.rs: config_chat and the configuration file it loads and stores.     *)
(***************************************************************************)
\* no file at CHAT_CONFIG_PATH
NoFile == [exists |-> FALSE, base_url |-> <<>>, api_key |-> <<>>, model |-> <<>>]

\* a Config in the file (texts are token sequences, as for the extractor)
File(b, a, m) == [exists |-> TRUE, base_url |-> b, api_key |-> a, model |-> m]

\* Config::default(): every String empty
DefaultConfig == File(<<>>, <<>>, <<>>)

\* the files explored: none, and each field empty or set
Files == {NoFile} \cup {File(b, a, m) : b \in {<<>>, <<"u">>}, a \in {<<>>, <<"k">>},
                                        m \in {<<>>, <<"m">>}}

Keys == {"base_url", "api_key", "model"}

\* options.get(key): None, or a text that may be empty or padded with spaces
NoOption == <<"none">>

OptionValues == {NoOption, <<>>, <<" ">>, <<"n">>, <<" ", "n", " ">>}

\* the protocol strings explored; Protocol has the one variant OpenAI and
\* ascii_case_insensitive
Protocols == {"OpenAI", "openai", "claude"}

ProtocolFromStr(p) == IF p \in {"OpenAI", "openai"} THEN "OpenAI" ELSE "ParseError"

\* confy::load_path: the Config in the file; when there is no file it stores
\* Config::default() there and returns it
LoadPath(file) == IF file.exists THEN file ELSE DefaultConfig

\* lines 90-100 with the option values taken as they are given
MergeUntrimmed(cfg, opts) ==
    [exists |-> TRUE,
     base_url |-> IF opts["base_url"] = NoOption THEN cfg.base_url ELSE opts["base_url"],
     api_key |-> IF opts["api_key"] = NoOption THEN cfg.api_key ELSE opts["api_key"],
     model |-> IF opts["model"] = NoOption THEN cfg.model ELSE opts["model"]]

\* lines 90-100: each option that is given replaces the field, trimmed
Merge(cfg, opts) ==
    [exists |-> TRUE,
     base_url |-> IF opts["base_url"] = NoOption THEN cfg.base_url ELSE Trim(opts["base_url"]),
     api_key |-> IF opts["api_key"] = NoOption THEN cfg.api_key ELSE Trim(opts["api_key"]),
     model |-> IF opts["model"] = NoOption THEN cfg.model ELSE Trim(opts["model"])]

\* config_chat (lines 85-126) on the file as it is, with whether store_path
\* succeeds: the result and the file afterwards
config_chat(file, p, opts, stores) ==
    LET loaded == LoadPath(file)
        cfg == Merge(loaded, opts)
    IN  IF ProtocolFromStr(p) = "ParseError"
        THEN [result |-> Failure("ParseEnumError", ""), file |-> loaded]
        ELSE IF cfg.base_url = <<>> \/ cfg.api_key = <<>> \/ cfg.model = <<>>
        THEN [result |-> Failure("Required", "OPTION_REQUIRED"), file |-> loaded]
        ELSE IF ~stores
        THEN [result |-> Failure("ConfigError", ""), file |-> loaded]
        ELSE [result |-> [kind |-> "Ok"], file |-> cfg]

InitConfig ==
    /\ stored \in Files
    /\ previous = stored
    /\ protocol \in Protocols
    /\ options \in [Keys -> OptionValues]
    /\ kpc = "call"
    /\ outcome = NoAnalysis

\* one call of config_chat, from its load to its return
ConfigChat ==
    /\ kpc = "call"
    /\ \E stores \in BOOLEAN :
         LET r == config_chat(stored, protocol, options, stores) IN
           /\ outcome' = r.result
           /\ stored' = r.file
    /\ kpc' = "returned"
    /\ UNCHANGED <<previous, protocol, options>>
    /\ UNCHANGED nkvars

\* config_chat is not called
ConfigIdle ==
    /\ stored = NoFile
    /\ previous = NoFile
    /\ protocol = "OpenAI"
    /\ options = [k \in Keys |-> NoOption]
    /\ kpc = "idle"
    /\ outcome = NoAnalysis

(***************************************************************************)
(* master/warren_buffett.rs analyze_consistency, master/benjamin_graham.rs *)
(* analyze_earnings_stability, master/peter_lynch.rs analyze_growth: the   *)
(* sub-analyses that score growth over adjacent fiscal periods.            *)
(***************************************************************************)
ScoredAnalyses == {"consistency", "earnings_stability", "growth"}

\* the metric of each criterion block, in the order of the blocks
Criteria(fn) ==
    CASE fn = "consistency" -> <<"net_profit", "book_value_per_share">>
      [] fn = "earnings_stability" -> <<"earnings_per_share">>
      [] fn = "growth" -> <<"operating_revenue", "earnings_per_share">>

\* the length below which the function returns at once
MinPeriods(fn) == IF fn = "consistency" THEN 4 ELSE 8

\* an Option<f64> metric: None, or Some of a value (the values explored are
\* positive, so that no growth rate is infinite or NaN by itself)
NoValue == <<>>

MetricValues == {NoValue, <<1>>, <<2>>}

\* the fiscal periods of interest to fn: a value or None for each metric
PeriodsOf(fn) == [{Criteria(fn)[i] : i \in DOMAIN Criteria(fn)} -> MetricValues]

Unreported(fn) == [m \in {Criteria(fn)[i] : i \in DOMAIN Criteria(fn)} |-> NoValue]

\* the sequences of n periods of which at most MaxReported carry any metric
MetricsetSeqs(fn, n) ==
    UNION {{[i \in 1..n |-> IF i \in R THEN f[i] ELSE Unreported(fn)] :
                f \in [R -> PeriodsOf(fn) \ {Unreported(fn)}]} :
           R \in {S \in SUBSET (1..n) : Cardinality(S) <= MaxReported}}

\* the i of for i in 0..len - 1 at which both periods carry the metric
\* (counted from 1 here)
AdjacentPairs(sets, m) ==
    {i \in 1..(Len(sets) - 1) : sets[i][m] # NoValue /\ sets[i + 1][m] # NoValue}

\* (current - prev) / prev, in halves: exact for prev in {1, 2}
GrowthRate(sets, m, i) == ((sets[i][m][1] - sets[i + 1][m][1]) * 2) \div sets[i + 1][m][1]

RECURSIVE SumRates(_, _, _)
SumRates(sets, m, P) ==
    IF P = {} THEN 0
    ELSE LET i == CHOOSE x \in P : TRUE
         IN GrowthRate(sets, m, i) + SumRates(sets, m, P \ {i})

\* growth_rates.iter().sum::<f64>() / growth_rates.len() as f64: 0.0 / 0.0 is
\* NaN for an empty vector; otherwise the average, kept as the sum (its sign is
\* the average's)
GrowthRateAvg(sets, m) ==
    IF AdjacentPairs(sets, m) = {} THEN [nan |-> TRUE, sum |-> 0]
    ELSE [nan |-> FALSE, sum |-> SumRates(sets, m, AdjacentPairs(sets, m))]

\* growth_rate_avg > 0.0: false for NaN
Positive(avg) == ~avg.nan /\ avg.sum > 0

\* Option<f64>: None, or Some(sum_scores / sum_weights)
ScoreNone == [some |-> FALSE, scores |-> 0, weights |-> 0]

ScoreSome(sc, w) == [some |-> TRUE, scores |-> sc, weights |-> w]

InitScore ==
    /\ sub \in ScoredAnalyses
    /\ fiscal_metricsets \in MetricsetSeqs(sub, MinPeriods(sub) - 1)
                               \cup MetricsetSeqs(sub, MinPeriods(sub))
    /\ spc = "call"
    /\ crit = 0
    /\ sum_scores = 0
    /\ sum_weights = 0
    /\ evaluated = 0
    /\ draft = ScoreNone

\* the length check and its early return with score None
ScoreStart ==
    /\ spc = "call"
    /\ spc' = IF Len(fiscal_metricsets) < MinPeriods(sub) THEN "returned" ELSE "criteria"
    /\ UNCHANGED <<sub, fiscal_metricsets, crit, sum_scores, sum_weights, evaluated, draft>>
    /\ UNCHANGED ndvars

\* one criterion block: the growth rates of the adjacent pairs that carry the
\* metric, their average, one point when it is positive, and the weight added
\* in either case
CriterionStep ==
    /\ spc = "criteria"
    /\ crit < Len(Criteria(sub))
    /\ LET m == Criteria(sub)[crit + 1]
           growth_rate_avg == GrowthRateAvg(fiscal_metricsets, m)
       IN
         /\ sum_scores' = IF Positive(growth_rate_avg) THEN sum_scores + 1 ELSE sum_scores
         /\ sum_weights' = sum_weights + 1
         /\ evaluated' = IF AdjacentPairs(fiscal_metricsets, m) # {}
                         THEN evaluated + 1 ELSE evaluated
    /\ crit' = crit + 1
    /\ UNCHANGED <<sub, fiscal_metricsets, spc, draft>>
    /\ UNCHANGED ndvars

\* let score = if sum_weights > 0.0 { Some(sum_scores / sum_weights) } else { None }
ScoreReturn ==
    /\ spc = "criteria"
    /\ crit = Len(Criteria(sub))
    /\ draft' = IF sum_weights > 0 THEN ScoreSome(sum_scores, sum_weights) ELSE ScoreNone
    /\ spc' = "returned"
    /\ UNCHANGED <<sub, fiscal_metricsets, crit, sum_scores, sum_weights, evaluated>>
    /\ UNCHANGED ndvars

NextScore ==
    \/ ScoreStart
    \/ CriterionStep
    \/ ScoreReturn

\* no sub-analysis in progress
ScoreIdle ==
    /\ sub = "consistency"
    /\ fiscal_metricsets = <<>>
    /\ spc = "idle"
    /\ crit = 0
    /\ sum_scores = 0
    /\ sum_weights = 0
    /\ evaluated = 0
    /\ draft = ScoreNone

(***************************************************************************)
(* llm/provider/open_ai.rs: the producer loop on a response of well-formed *)
(* frames that arrives divided into chunks at any byte (lines 110-149),    *)
(* and chat_completion over its events (lines 38-61).                      *)
(***************************************************************************)
\* the payloads of the frames written: a content delta, a reasoning delta, [DONE]
SplitPayloads == {Delta(JStr("A"), JNull), Delta(JNull, JStr("R")), Done}

\* the bytes of frame k, "data: <payload>\n\n", in the pieces a chunk boundary
\* may fall between: the prefix "data: " in two, the payload in two, and the
\* two line breaks
FrameBytes(k) ==
    [i \in 1..5 |-> [part |-> <<"da", "ta: ", "head", "tail", "\n\n">>[i], frame |-> k]]

RECURSIVE ByteStream(_, _)
ByteStream(n, k) == IF k > n THEN <<>> ELSE FrameBytes(k) \o ByteStream(n, k + 1)

\* chunk_str.lines(): the text between line breaks, with the empty line between
\* two breaks, and the text after the last break when there is any
RECURSIVE StrLines(_)
StrLines(c) ==
    IF c = <<>> THEN <<>>
    ELSE LET breaks == {i \in DOMAIN c : c[i].part = "\n\n"} IN
         IF breaks = {} THEN <<c>>
         ELSE <<SubSeq(c, 1, MinOf(breaks) - 1), <<>>>>
                 \o StrLines(SubSeq(c, MinOf(breaks) + 1, Len(c)))

\* line.strip_prefix("data: ") and what follows it, for the text l of a line:
\* the whole payload, a payload cut short (the empty text or a proper prefix of
\* the JSON or of [DONE], none of which parses or equals [DONE]), or a line
\* that does not start with "data: "
StripPrefix(l, fs) ==
    LET parts == [i \in DOMAIN l |-> l[i].part] IN
    IF parts = <<"da", "ta: ", "head", "tail">> THEN DataLine(fs[l[1].frame])
    ELSE IF Len(l) >= 2 /\ parts[1] = "da" /\ parts[2] = "ta: " THEN DataLine(Malformed)
    ELSE BlankLine

\* the frame the text of a line belongs to (0 for an empty line)
FrameOf(l) == IF l = <<>> THEN 0 ELSE l[1].frame

ChunkLines(c, fs) ==
    [i \in DOMAIN StrLines(c) |->
        [line |-> StripPrefix(StrLines(c)[i], fs), frame |-> FrameOf(StrLines(c)[i])]]

\* chat_completion lines 39-61 over the events in the order they were sent
RECURSIVE Collect(_, _, _)
Collect(c, rc, es) ==
    IF es = <<>> THEN BotMessage(c, rc)
    ELSE LET m == MatchEvent(c, rc, Head(es).event) IN
         IF m.return THEN [kind |-> "Err", error |-> m.error]
         ELSE Collect(m.content, m.reasoning_content, Tail(es))

InitChunk ==
    /\ frames \in UNION {[1..n -> SplitPayloads] : n \in 1..MaxSplitFrames}
    /\ unread = ByteStream(Len(frames), 1)
    /\ chunks = <<>>
    /\ lines_left = <<>>
    /\ emitted = <<>>
    /\ hpc = "next"
    /\ reply = NoMessage

\* line 110, stream.next().await gives Some(Ok(chunk)): any number of the bytes
\* not yet read (the rest of them when it is the last chunk explored)
ChunkRead ==
    /\ hpc = "next"
    /\ unread # <<>>
    /\ \E n \in 1..Len(unread) :
         /\ Len(chunks) = MaxChunks - 1 => n = Len(unread)
         /\ chunks' = Append(chunks, SubSeq(unread, 1, n))
         /\ unread' = SubSeq(unread, n + 1, Len(unread))
         /\ lines_left' = ChunkLines(SubSeq(unread, 1, n), frames)
    /\ hpc' = "lines"
    /\ UNCHANGED <<frames, emitted, reply>>
    /\ UNCHANGED nhvars

\* the for loop going on to the next line after [DONE]
ChunkLineIgnoresBreak ==
    /\ hpc = "lines"
    /\ LET step == LineStep(Head(lines_left).line) IN
         /\ emitted' = IF step.events = <<>> THEN emitted
                       ELSE Append(emitted, [event |-> step.events[1],
                                             frame |-> Head(lines_left).frame,
                                             chunk |-> Len(chunks)])
         /\ lines_left' = Tail(lines_left)
         /\ hpc' = IF Tail(lines_left) = <<>> THEN "next" ELSE "lines"
    /\ UNCHANGED <<frames, unread, chunks, reply>>
    /\ UNCHANGED nhvars

\* lines 115-149, the for loop on the next line of the chunk: break on [DONE]
\* leaves the loop over this chunk, any other line may send one event
ChunkLine ==
    /\ hpc = "lines"
    /\ LET step == LineStep(Head(lines_left).line)
           rest == IF step.break THEN <<>> ELSE Tail(lines_left)
       IN
         /\ emitted' = IF step.events = <<>> THEN emitted
                       ELSE Append(emitted, [event |-> step.events[1],
                                             frame |-> Head(lines_left).frame,
                                             chunk |-> Len(chunks)])
         /\ lines_left' = rest
         /\ hpc' = IF rest = <<>> THEN "next" ELSE "lines"
    /\ UNCHANGED <<frames, unread, chunks, reply>>
    /\ UNCHANGED nhvars

\* line 110, stream.next().await gives None: the producer ends
ChunkStreamEnd ==
    /\ hpc = "next"
    /\ unread = <<>>
    /\ hpc' = "ended"
    /\ UNCHANGED <<frames, unread, chunks, lines_left, emitted, reply>>
    /\ UNCHANGED nhvars

\* chat_completion has taken the events of the session and returns
ChunkCollect ==
    /\ hpc = "ended"
    /\ reply' = Collect("", "", emitted)
    /\ hpc' = "returned"
    /\ UNCHANGED <<frames, unread, chunks, lines_left, emitted>>
    /\ UNCHANGED nhvars

NextChunk ==
    \/ ChunkRead
    \/ ChunkLine
    \/ ChunkStreamEnd
    \/ ChunkCollect

\* no response being read in chunks
ChunkIdle ==
    /\ frames = <<>>
    /\ unread = <<>>
    /\ chunks = <<>>
    /\ lines_left = <<>>
    /\ emitted = <<>>
    /\ hpc = "idle"
    /\ reply = NoMessage

\* the collaborators are at rest
OtherIdle == ConfigIdle /\ ScoreIdle /\ ChunkIdle

\* no evaluation in progress
EvalIdle ==
    /\ opt_masters = <<>>
    /\ backward_days = 91
    /\ pc = "start"
    /\ fiscal_len = 0
    /\ netCalls = 0
    /\ masters = <<>>
    /\ tasks = <<>>
    /\ spawnIdx = 0
    /\ handles = EmptyMap
    /\ joinOrder = <<>>
    /\ joinIdx = 0
    /\ master_analyses = EmptyMap
    /\ result = NoResult

\* no streaming session in progress
StreamIdle ==
    /\ call = "idle"
    /\ response = NoResponse
    /\ ret = NoRet
    /\ capacity = CHANNEL_BUFFER_DEFAULT
    /\ rx = "none"
    /\ sender = "none"
    /\ chan = <<>>
    /\ ppc = "none"
    /\ whole = <<>>
    /\ chunk = <<>>
    /\ mark = 0
    /\ budget = 0
    /\ produced = <<>>
    /\ received = <<>>
    /\ eos = FALSE
    /\ done_seen = FALSE
    /\ skipped = 0

\* the evaluation orchestrator: one call of evaluate::run and its tasks
Init ==
    InitEval /\ StreamIdle /\ CompleteIdle /\ AnalyzeIdle /\ ExtractIdle /\ RequestIdle /\ OtherIdle

Next == NextEval

Spec == Init /\ [][Next]_vars

\* the streaming completion client: one session of chat_completion_stream, its
\* producer task and its consumer
StreamInit ==
    InitStream /\ EvalIdle /\ CompleteIdle /\ AnalyzeIdle /\ ExtractIdle /\ RequestIdle /\ OtherIdle

StreamSpec == StreamInit /\ [][NextStream]_vars

\* the same session at capacity 1 with a consumer that never closes the stream
\* and keeps calling next(); the runtime keeps polling the call and the spawned
\* producer task
BackpressureInit ==
    /\ InitStream /\ EvalIdle /\ CompleteIdle /\ AnalyzeIdle /\ ExtractIdle /\ RequestIdle
    /\ OtherIdle
    /\ capacity = 1

BackpressureSpec ==
    /\ BackpressureInit
    /\ [][NextBackpressure]_vars
    /\ WF_vars(SendRequest)
    /\ WF_vars(CheckStatus)
    /\ WF_vars(ProducerStep)
    /\ WF_vars(ConsumerNext)

\* a session at capacity 1 (a response with more events than the buffer
\* holds) whose consumer does as it likes: it may read, stop reading, close the
\* stream or drop it; the runtime keeps polling the call and the spawned
\* producer task
InitProducer ==
    /\ call = "idle"
    /\ response = NoResponse
    /\ ret = NoRet
    /\ capacity = 1
    /\ rx = "none"
    /\ sender = "none"
    /\ chan = <<>>
    /\ ppc = "none"
    /\ whole = <<>>
    /\ chunk = <<>>
    /\ mark = 0
    /\ budget = MaxLiveFrames
    /\ produced = <<>>
    /\ received = <<>>
    /\ eos = FALSE
    /\ done_seen = FALSE
    /\ skipped = 0

ProducerInit ==
    /\ InitProducer /\ EvalIdle /\ CompleteIdle /\ AnalyzeIdle /\ ExtractIdle /\ RequestIdle
    /\ OtherIdle

ProducerSpec ==
    /\ ProducerInit
    /\ [][NextStream]_vars
    /\ WF_vars(SendRequest)
    /\ WF_vars(CheckStatus)
    /\ WF_vars(ProducerStep)

\* the steps of run itself
RunStep ==
    \/ ParseTicker
    \/ FetchSnapshot
    \/ Resolve
    \/ SpawnNext
    \/ BeginJoin
    \/ JoinNext
    \/ ReturnOk

\* the steps of spawned task t
TaskStep(t) == TaskStart(t) \/ TaskFinish(t)

\* an evaluation with its tasks, or one of the buffered completions such a task
\* makes (with a response of more events than the buffer holds), each followed
\* to its end: cpc tells which
TerminationInit ==
    /\ \/ InitEval /\ StreamIdle /\ CompleteIdle
       \/ EvalIdle /\ InitProducer /\ InitComplete
    /\ AnalyzeIdle /\ ExtractIdle /\ RequestIdle /\ OtherIdle

NextTermination ==
    \/ cpc = "idle" /\ NextEval
    \/ cpc # "idle" /\ NextComplete

\* the runtime keeps polling run, every spawned analyzer task, the completion
\* call and its spawned producer task
TerminationSpec ==
    /\ TerminationInit
    /\ [][NextTermination]_vars
    /\ WF_vars(cpc = "idle" /\ RunStep)
    /\ \A t \in 1..(MaxFilter + 1) : WF_vars(cpc = "idle" /\ TaskStep(t))
    /\ WF_vars(cpc # "idle" /\ (SendRequest \/ CheckStatus))
    /\ WF_vars(cpc # "idle" /\ ProducerStep)
    /\ WF_vars(cpc # "idle" /\ (CompleteStart \/ CompleteNext))

\* one buffered completion: chat_completion, the session it opens and the
\* producer task of that session
CompleteInit ==
    InitStream /\ EvalIdle /\ InitComplete /\ AnalyzeIdle /\ ExtractIdle /\ RequestIdle /\ OtherIdle

CompleteSpec == CompleteInit /\ [][NextComplete]_vars

\* one run of one analyzer pipeline, from its call to its return
PipelineInit ==
    InitAnalyze /\ EvalIdle /\ StreamIdle /\ CompleteIdle /\ ExtractIdle /\ RequestIdle /\ OtherIdle

PipelineSpec == PipelineInit /\ [][NextAnalyze]_vars

\* one call of extract_code_block, statement by statement
ExtractInit ==
    InitExtract /\ EvalIdle /\ StreamIdle /\ CompleteIdle /\ AnalyzeIdle /\ RequestIdle /\ OtherIdle

ExtractSpec == ExtractInit /\ [][NextExtract]_vars

\* the messages of one request body, from the arguments to the json! call
RequestInit ==
    InitRequest /\ EvalIdle /\ StreamIdle /\ CompleteIdle /\ AnalyzeIdle /\ ExtractIdle /\ OtherIdle

RequestSpec == RequestInit /\ [][NextRequest]_vars

\* the core at rest
CoreIdle ==
    EvalIdle /\ StreamIdle /\ CompleteIdle /\ AnalyzeIdle /\ ExtractIdle /\ RequestIdle

\* one call of config_chat
ConfigInit == InitConfig /\ CoreIdle /\ ScoreIdle /\ ChunkIdle

ConfigSpec == ConfigInit /\ [][ConfigChat]_vars

\* one call of a scored sub-analysis, block by block
ScoreInit == InitScore /\ CoreIdle /\ ConfigIdle /\ ChunkIdle

ScoreSpec == ScoreInit /\ [][NextScore]_vars

\* one response of well-formed frames read in chunks, and the reply made of it
ChunkInit == InitChunk /\ CoreIdle /\ ConfigIdle /\ ScoreIdle

ChunkSpec == ChunkInit /\ [][NextChunk]_vars

(***************************************************************************)
(* Properties of the evaluation orchestrator.                              *)
(***************************************************************************)
Range(f) == {f[x] : x \in DOMAIN f}

\* the spawn loop has run to its end
FanOutDone == pc = "join" \/ (pc = "done" /\ result.kind = "Ok") \/
              (pc = "done" /\ result.kind = "Err" /\ result.origin # 0)

\* the spawned tasks the join loop has not awaited
Unjoined(idx) ==
    DOMAIN tasks \ {handles[joinOrder[i]] : i \in 1..idx}

HasBadAlias == \E i \in DOMAIN opt_masters : FromStr(opt_masters[i]) = "ParseError"

\* C3 (as claimed): a call (with a valid ticker) whose filter holds an
\* unparseable alias fails with NotExists, with no task started and no network
\* request made during the call.
C3_NoNetworkBeforeNotExists ==
    (HasBadAlias /\ pc = "done" /\ ~(result.kind = "Err" /\ result.error = "Invalid")) =>
        /\ result.kind = "Err" /\ result.error = "NotExists"
        /\ tasks = <<>>
        /\ netCalls = 0

\* C4 (as claimed): run returns the full mapping or one error, and a mapping is
\* returned only if no analyzer task failed.
C4_FullMappingOrError ==
    pc = "done" =>
        \/ /\ result.kind = "Ok"
           /\ DOMAIN result.master_analyses = Range(masters)
           /\ \A t \in DOMAIN tasks : tasks[t].status \notin {"err", "panicked", "aborted"}
        \/ result.kind = "Err"

\* C5 (as claimed): when run returns, no task it spawned is still running.
C5_AllTerminatedAtReturn ==
    pc = "done" => \A t \in DOMAIN tasks : tasks[t].status \in Terminated

\* C6 (as claimed): one task per resolved analyzer, and the handle map retains
\* every spawned task.
C6_OneTaskPerAnalyzerRetained ==
    /\ \A t \in DOMAIN tasks : \E m \in DOMAIN handles : handles[m] = t
    /\ \A t, u \in DOMAIN tasks : tasks[t].master = tasks[u].master => t = u

\* C7: once run has returned early with a failure seen by the join loop, no
\* task it has not joined is aborted: such a task only moves by its own steps,
\* stays as it is once terminated, and the returned value never changes and is
\* not that task's.
C7_UnjoinedNotCancelled ==
    [][(pc' = "done" /\ result'.kind = "Err" /\ result'.origin # 0) =>
          /\ pc = "done" => result' = result
          /\ \A u \in Unjoined(joinIdx)' :
               /\ tasks'[u].status # "aborted"
               /\ result'.origin # u
               /\ tasks[u].status \in Terminated => tasks'[u] = tasks[u]]_vars

\* C7 witness: run returned early and a task it never joined completed with a
\* verdict of its own
C7_Witness ==
    /\ pc = "done"
    /\ result.kind = "Err"
    /\ result.origin # 0
    /\ \E u \in Unjoined(joinIdx) : tasks[u].status = "ok"

\* C8 (as claimed): whenever a worker task has panicked, run returns
\* ConcurrentError.
C8_PanicGivesConcurrentError ==
    (pc = "done" /\ \E t \in DOMAIN tasks : tasks[t].status \in {"panicked", "aborted"}) =>
        (result.kind = "Err" /\ result.error = "ConcurrentError")

\* C8 (amended): run never panics itself, and when the task the join loop
\* awaited last had panicked or been aborted, run returns ConcurrentError as
\* its single error.
C8_JoinedPanicGivesConcurrentError ==
    /\ result.kind \in {"none", "Ok", "Err"}
    /\ (pc = "done" /\ joinIdx >= 1
          /\ tasks[handles[joinOrder[joinIdx]]].status \in {"panicked", "aborted"}) =>
         result = Err("ConcurrentError", handles[joinOrder[joinIdx]])

\* C8 witness: the join loop awaited a panicked task and run returned
C8_Witness ==
    /\ pc = "done"
    /\ joinIdx >= 1
    /\ tasks[handles[joinOrder[joinIdx]]].status = "panicked"
    /\ result.kind = "Err"

(***************************************************************************)
(* Properties of the streaming completion client.                          *)
(***************************************************************************)
\* the producer is suspended in send: it has an event in hand and may not move
ProducerSuspended ==
    /\ rx = "open"
    /\ Len(chan) >= capacity
    /\ \/ ppc = "error"
       \/ ppc = "lines" /\ LineStep(Head(chunk)).events # <<>>

\* C1: at channel capacity 1, with a consumer that keeps the stream open and
\* keeps calling next(), the buffer never holds more than one event, every event
\* the producer generated is either already received or still buffered, in
\* generation order and once each (none is dropped), and once the stream has
\* been returned the consumer eventually has received all of them and sees the
\* end of the stream.
C1_Backpressure ==
    /\ [](Len(chan) <= capacity)
    /\ []((received \o chan) = produced)
    /\ (ret.kind = "Ok") ~> (eos /\ ppc = "exit" /\ received = produced)

\* C1 witness: the producer is suspended on the full channel with an event in
\* hand, after the consumer has already received one
C1_Witness ==
    /\ capacity = 1
    /\ ProducerSuspended
    /\ Len(received) >= 1

RECURSIVE Concat(_)
\* the concatenation of a sequence of sequences
Concat(ss) == IF ss = <<>> THEN <<>> ELSE Head(ss) \o Concat(Tail(ss))

\* the events C9 states for a line: for a "data: " line with valid JSON,
\* ContentDelta when content is text, else ReasoningDelta when reasoning_content
\* is text, else none
C9_LineEvents(line) ==
    IF line.data /\ line.payload.kind = "json"
    THEN IF line.payload.content.type = "string"
         THEN <<[type |-> "Content", text |-> line.payload.content.text]>>
         ELSE IF line.payload.reasoning_content.type = "string"
              THEN <<[type |-> "ReasoningContent",
                      text |-> line.payload.reasoning_content.text]>>
              ELSE <<>>
    ELSE <<>>

\* the events of a sequence that are not Error events
NonError(es) == SelectSeq(es, LAMBDA e : e.type # "Error")

\* the lines of a chunk before its first [DONE] line
RECURSIVE BeforeDone(_)
BeforeDone(ls) ==
    IF ls = <<>> THEN <<>>
    ELSE IF Head(ls).data /\ Head(ls).payload.kind = "[DONE]" THEN <<>>
    ELSE <<Head(ls)>> \o BeforeDone(Tail(ls))

\* the producer has just finished the chunk it read (the step leaves the for loop)
ChunkFinished == ppc = "lines" /\ ppc' = "next"

\* the events produced for that chunk, Error events aside
ChunkEvents == NonError(SubSeq(produced', mark + 1, Len(produced')))

\* what a consumer that keeps the stream open observes: the produced events in
\* order, then the end of the stream once the producer has gone
ObservedInOrder ==
    rx = "open" =>
        /\ (received \o chan) = produced
        /\ eos => (received = produced /\ ppc = "exit")

\* C9 (as claimed): every "data: " line of a chunk with valid JSON yields its
\* event, in line order.
C9_EveryLineYieldsItsEvent ==
    [][ChunkFinished =>
          ChunkEvents = Concat([i \in DOMAIN whole |-> C9_LineEvents(whole[i])])]_vars

\* C9 (amended): every "data: " line with valid JSON that no [DONE] line
\* precedes in its chunk yields its event, in line order (the lines after a
\* [DONE] in the same chunk yield none), and the consumer observes the events in
\* that order and then the end of the stream.
C9_LinesBeforeDoneYieldTheirEvent ==
    /\ []ObservedInOrder
    /\ [][ChunkFinished =>
            ChunkEvents =
              Concat([i \in DOMAIN BeforeDone(whole) |-> C9_LineEvents(BeforeDone(whole)[i])])]_vars

\* C9 witness: content frames A and B (the second with reasoning_content too)
\* then [DONE]: the consumer saw exactly Content A, Content B, then the end
C9_Witness ==
    /\ rx = "open"
    /\ eos
    /\ done_seen
    /\ received = <<[type |-> "Content", text |-> "A"], [type |-> "Content", text |-> "B"]>>

\* C10: when the request cannot be made or the status is not a success, the
\* call returns an error (with the status and the body text for a bad status),
\* and no channel, no producer task and no event ever exist for that call.
C10_SynchronousFailure ==
    /\ (call = "returned" /\ ret.kind # "Ok") =>
          /\ ret.kind = "Err"
          /\ rx = "none" /\ sender = "none" /\ ppc = "none"
          /\ chan = <<>> /\ produced = <<>> /\ received = <<>> /\ ~eos
    /\ (call = "sent" /\ ~(response.status \in 200..299)) =>
          (rx = "none" /\ ppc = "none")
    /\ (call = "returned" /\ ret.kind = "Ok") => ret.status \in 200..299
    /\ (ret.kind = "Err" /\ ret.error = "HttpStatusError") =>
          (~(ret.status \in 200..299) /\ ret.status \in Statuses /\ ret.body \in Bodies)

\* C10 witness: the server answered 404 with a body and the call returned the
\* error carrying both
C10_Witness ==
    /\ call = "returned"
    /\ ret = [kind |-> "Err", error |-> "HttpStatusError", status |-> 404,
              body |-> "rate limited"]


(***************************************************************************)
(* Bad frames, the end of the stream, [DONE], and a consumer that leaves.   *)
(***************************************************************************)
\* the event stated for a line: one Error for a "data: " line with malformed
\* JSON, and the event of its delta otherwise
C11_LineEvents(line) ==
    IF line.data /\ line.payload.kind = "malformed"
    THEN <<[type |-> "Error", text |-> "SerdeJsonError"]>>
    ELSE C9_LineEvents(line)

\* every event produced for the chunk the producer has just finished
ChunkAllEvents == SubSeq(produced', mark + 1, Len(produced'))

\* the producer has just dealt with a read error of the byte stream
ReadErrorHandled == ppc = "error" /\ ppc' # "error"

\* the Error events of a sequence
OnlyErrors(es) == SelectSeq(es, LAMBDA e : e.type = "Error")

\* C11 (as claimed): every "data: " line of a chunk with malformed JSON yields
\* exactly one Error event, the valid lines the loop reaches yield their events
\* in line order, and every read error yields exactly one Error event after
\* which the producer reads on.
C11_EveryBadFrameYieldsOneError ==
    [][/\ ChunkFinished =>
            OnlyErrors(ChunkAllEvents) =
              OnlyErrors(Concat([i \in DOMAIN whole |-> C11_LineEvents(whole[i])]))
       /\ ChunkFinished =>
            NonError(ChunkAllEvents) =
              NonError(Concat([i \in DOMAIN BeforeDone(whole) |-> C11_LineEvents(BeforeDone(whole)[i])]))
       /\ ReadErrorHandled =>
            /\ produced' = Append(produced, [type |-> "Error", text |-> "HttpRequestError"])
            /\ ppc' = "next"]_vars

\* C11 (amended): every "data: " line with malformed JSON that no [DONE] line
\* precedes in its chunk yields exactly one Error event, the lines around it
\* yield their own events in line order (a bad line does not end the chunk), and
\* every read error of the byte stream yields exactly one Error event after
\* which the producer reads the next chunk.
C11_BadFrameBeforeDoneYieldsOneError ==
    [][/\ ChunkFinished =>
            ChunkAllEvents =
              Concat([i \in DOMAIN BeforeDone(whole) |-> C11_LineEvents(BeforeDone(whole)[i])])
       /\ ReadErrorHandled =>
            /\ produced' = Append(produced, [type |-> "Error", text |-> "HttpRequestError"])
            /\ ppc' = "next"]_vars

\* C11 witness: a malformed line, a read error and then a content frame: the
\* consumer received the two Error events and then the content
C11_Witness ==
    /\ rx = "open"
    /\ received = <<[type |-> "Error", text |-> "SerdeJsonError"],
                    [type |-> "Error", text |-> "HttpRequestError"],
                    [type |-> "Content", text |-> "A"]>>

\* the channel has just been closed from the producer's side
SenderDropped == sender = "held" /\ sender' = "dropped"

\* next() has just returned None
StreamEnded == ~eos /\ eos'

\* C12 (as claimed): next() returns None only when the byte stream has ended
\* and every event sent has been consumed, and then it does; a [DONE] payload
\* does not close the channel, which the producer closes only when its read of
\* the byte stream gives the end.
C12_EndsIffByteStreamEnded ==
    /\ [](done_seen /\ ppc # "exit" => sender = "held")
    /\ [](rx = "open" /\ ppc = "exit" /\ chan = <<>> /\ ~eos => ENABLED ConsumerNext)
    /\ [][/\ StreamEnded => (ppc = "exit" /\ chan = <<>>)
          /\ SenderDropped => (ppc = "next" /\ ppc' = "exit")
          /\ (ConsumerNext /\ ppc = "exit" /\ chan = <<>>) => eos']_vars

\* C12 (amended): next() returns None only when every event sent has been
\* consumed and either the byte stream has ended or the consumer itself has
\* closed the stream, and then it does; a [DONE] payload does not close the
\* channel, which the producer closes only when its read of the byte stream
\* gives the end.
C12_EndsIffByteStreamEndedOrClosed ==
    /\ [](done_seen /\ ppc # "exit" => sender = "held")
    /\ [](rx = "open" /\ ppc = "exit" /\ chan = <<>> /\ ~eos => ENABLED ConsumerNext)
    /\ [][/\ StreamEnded => (chan = <<>> /\ (ppc = "exit" \/ rx = "closed"))
          /\ (StreamEnded /\ rx = "open") => received = produced
          /\ SenderDropped => (ppc = "next" /\ ppc' = "exit")
          /\ (ConsumerNext /\ ppc = "exit" /\ chan = <<>>) => eos']_vars

\* C12 witness: a stream that gave events and never a [DONE] has ended for a
\* consumer that kept it open
C12_Witness ==
    /\ rx = "open"
    /\ eos
    /\ ~done_seen
    /\ received # <<>>
    /\ received = produced

IsDone(line) == line.data /\ line.payload.kind = "[DONE]"

HasDone(ls) == \E i \in DOMAIN ls : IsDone(ls[i])

\* C13: the for loop's step at a [DONE] line sends nothing and ends the loop
\* over that chunk, so that the events of a chunk holding a [DONE] are those of
\* the lines before it and none of a later line.
C13_DoneEndsChunk ==
    [][/\ (ppc = "lines" /\ IsDone(Head(chunk)) /\ chunk' # chunk) =>
            (produced' = produced /\ chan' = chan /\ chunk' = <<>> /\ ppc' = "next")
       /\ (ChunkFinished /\ HasDone(whole)) =>
            /\ Len(ChunkAllEvents) <= Len(BeforeDone(whole))
            /\ ChunkAllEvents =
                 Concat([i \in DOMAIN BeforeDone(whole) |-> C11_LineEvents(BeforeDone(whole)[i])])]_vars

\* C13 witness: a chunk of a content line, [DONE] and a line that had an event
\* to give: the consumer received the content and then the end of the stream
C13_Witness ==
    /\ rx = "open"
    /\ eos
    /\ skipped >= 1
    /\ received = <<[type |-> "Content", text |-> "A"]>>

\* the consumer has closed or dropped the stream
ConsumerGone == rx \in {"closed", "dropped"}

\* C14: once the consumer has closed or dropped the stream, the producer is
\* never held up by a send, nothing enters the buffer any more (the consumer can
\* only drain what was buffered before), and the producer goes on and exits only
\* when its read of the byte stream gives the end.
C14_ConsumerGone ==
    /\ []((ConsumerGone /\ ppc # "exit") => ENABLED ProducerStep)
    /\ [][ConsumerGone =>
            /\ \/ (received' \o chan') = (received \o chan)
               \/ (received' = received /\ chan' = <<>>)
            /\ Len(chan') <= Len(chan)
            /\ (ppc # "exit" /\ ppc' = "exit") => (ppc = "next" /\ ProducerEnd)
            /\ ppc = "exit" => ppc' = "exit"]_vars

\* C14 witness: the consumer received an event and closed the stream, the
\* producer sent more, read to the end of the byte stream and exited, and the
\* consumer saw the end without any of the later events
C14_Witness ==
    /\ rx = "closed"
    /\ eos
    /\ ppc = "exit"
    /\ received # <<>>
    /\ Len(produced) > Len(received)


(***************************************************************************)
(* Properties of the buffered completion.                                  *)
(***************************************************************************)
RECURSIVE TextOf(_, _)
\* the payloads of the events of type ty in es, concatenated in order
TextOf(es, ty) ==
    IF es = <<>> THEN ""
    ELSE (IF Head(es).type = ty THEN Head(es).text ELSE "") \o TextOf(Tail(es), ty)

HasErrorEvent(es) == \E i \in DOMAIN es : es[i].type = "Error"

\* the index of the first Error event of es
FirstError(es) ==
    CHOOSE i \in DOMAIN es : es[i].type = "Error" /\ \A j \in 1..(i - 1) : es[j].type # "Error"

\* chat_completion has returned from a session whose stream it was given
CompleteReturned == cpc = "returned" /\ ret.kind = "Ok"

\* C15: when the session's events hold no Error, chat_completion returns only
\* after it has consumed every event and seen the end of the stream, and it
\* returns a Bot message whose content is the Content payloads concatenated in
\* delivery order and whose reasoning is the ReasoningContent payloads
\* concatenated in delivery order, absent exactly when that text is empty.
C15_CompleteConcatenates ==
    (CompleteReturned /\ ~HasErrorEvent(produced)) =>
        /\ eos /\ ppc = "exit" /\ received = produced
        /\ message.kind = "Ok"
        /\ message.role = "Bot"
        /\ message.content = TextOf(received, "Content")
        /\ message.reasoning.some = (TextOf(received, "ReasoningContent") # "")
        /\ message.reasoning.some =>
              message.reasoning.text = TextOf(received, "ReasoningContent")

\* C15 witness: content A, content B and reasoning R were delivered and
\* chat_completion returned the message with content AB and reasoning R
C15_Witness ==
    /\ cpc = "returned"
    /\ message = [kind |-> "Ok", role |-> "Bot", content |-> "AB",
                  reasoning |-> [some |-> TRUE, text |-> "R"]]

\* C16: when the session's events hold an Error, chat_completion returns the
\* first of them in delivery order as its failure and no message, having
\* consumed the events up to that one and none after it.
C16_CompleteFirstError ==
    (CompleteReturned /\ HasErrorEvent(produced)) =>
        /\ message = [kind |-> "Err", error |-> produced[FirstError(produced)].text]
        /\ received = SubSeq(produced, 1, FirstError(produced))
        /\ ~eos
        /\ rx = "dropped" /\ chan = <<>>

\* C16 witness: content A, a malformed line and a read error: chat_completion
\* returned the first Error, with the content dropped and the second Error
\* never consumed
C16_Witness ==
    /\ cpc = "returned"
    /\ message = [kind |-> "Err", error |-> "SerdeJsonError"]
    /\ produced = <<[type |-> "Content", text |-> "A"],
                    [type |-> "Error", text |-> "SerdeJsonError"],
                    [type |-> "Error", text |-> "HttpRequestError"]>>
    /\ received = SubSeq(produced, 1, 2)


(***************************************************************************)
(* The state machine of the streaming client.                              *)
(***************************************************************************)
\* the state of the client: Failed once the call has returned an error,
\* Streaming while the producer holds the Sender, Closed once it has dropped it
ClientState ==
    IF call = "idle" THEN "Idle"
    ELSE IF call = "sent" THEN "RequestSent"
    ELSE IF ret.kind = "Err" THEN "Failed"
    ELSE IF sender = "dropped" THEN "Closed"
    ELSE "Streaming"

\* the place of a state in Idle -> RequestSent -> {Failed | Streaming} -> Closed
StateRank(st) ==
    CASE st = "Idle" -> 0
      [] st = "RequestSent" -> 1
      [] st \in {"Failed", "Streaming"} -> 2
      [] OTHER -> 3

\* C17: the client's state only moves forward along Idle -> RequestSent ->
\* {Failed | Streaming} -> Closed; Failed and Streaming never follow one
\* another; in Failed there is no channel, no producer and no event, and none
\* comes later; Closed is entered only from Streaming (or Failed) and is final:
\* it is never left and nothing is produced in it.
C17_StateMachine ==
    /\ [](ClientState = "Failed" =>
            (rx = "none" /\ sender = "none" /\ ppc = "none" /\ produced = <<>> /\ chan = <<>>))
    /\ [](ClientState \in {"Idle", "RequestSent"} => (ppc = "none" /\ produced = <<>>))
    /\ [][/\ StateRank(ClientState') >= StateRank(ClientState)
          /\ ClientState' = "RequestSent" => ClientState \in {"Idle", "RequestSent"}
          /\ ClientState' = "Streaming" => ClientState \in {"RequestSent", "Streaming"}
          /\ ClientState = "Failed" => ClientState' = "Failed"
          /\ ClientState = "Streaming" => ClientState' \in {"Streaming", "Closed"}
          /\ ClientState' = "Closed" => ClientState \in {"Streaming", "Failed", "Closed"}
          /\ ClientState = "Closed" => (ClientState' = "Closed" /\ produced' = produced)]_vars

\* C17 witness: a session that streamed events and was closed by its producer
C17_Witness ==
    /\ ClientState = "Closed"
    /\ produced # <<>>
    /\ received = produced
    /\ eos


(***************************************************************************)
(* Properties of the analyzer pipelines and of verdict parsing.            *)
(***************************************************************************)
\* C18: whichever persona runs, with an empty fiscal-metric sequence analyze
\* computes no sub-analysis, builds no message, makes no completion request, and
\* returns the NoData error at its first step.
C18_NoDataFailsFast ==
    metricsets = 0 =>
        /\ drafts = <<>> /\ messages = <<>>
        /\ requests = 0 /\ completion.kind = "none"
        /\ apc \in {"idle", "start", "returned"}
        /\ apc = "returned" => analysis = [kind |-> "Err", error |-> "NoData",
                                          code |-> "NO_STOCK_METRICS"]

\* C18 witness: the Benjamin Graham pipeline was run on an empty metric
\* sequence and has returned
C18_Witness ==
    /\ persona = "benjamin_graham"
    /\ metricsets = 0
    /\ apc = "returned"
    /\ analysis.kind = "Err"

\* C19: a run of a pipeline makes at most one completion request, of exactly
\* two messages: System with the persona's text, then User with the fact
\* document (profile and drafts) followed by the output-format instruction; when
\* the completion fails the run ends at once with that same error and no second
\* request.
C19_OneRequestTwoMessages ==
    /\ requests <= 1
    /\ requests = 0 => messages = <<>>
    /\ requests = 1 =>
          /\ Len(messages) = 2
          /\ messages[1].role = "System"
          /\ messages[1].content = <<persona, "LLM_SYSTEM">>
          /\ messages[2].role = "User"
          /\ Head(messages[2].content) = "basic_information"
          /\ SubSeq(messages[2].content, 2, Len(messages[2].content) - 1) = drafts
          /\ messages[2].content[Len(messages[2].content)] = "MASTER_ANALYSIS_JSON_PROMPT"
    /\ completion.kind = "Err" =>
          (apc = "returned" /\ analysis = completion /\ requests = 1)

\* C19 witness: the provider answered with a bad status and the pipeline
\* returned that error after its one request
C19_Witness ==
    /\ apc = "returned"
    /\ requests = 1
    /\ completion = [kind |-> "Err", error |-> "HttpStatusError", code |-> ""]
    /\ analysis = completion

\* the JSON object j lacks exactly one of the three keys
OmitsOneField(j) ==
    /\ j.kind = "object"
    /\ Cardinality({k \in {"prospect", "rating", "explanation"} : j[k].type = "absent"}) = 1

\* C20 (as claimed): parsing a JSON object that omits one of prospect, rating,
\* explanation fails with a Required error and never gives a verdict.
C20_MissingFieldIsRequired ==
    (apc = "returned" /\ completion.kind = "Ok" /\ OmitsOneField(json_str)) =>
        (analysis.kind = "Err" /\ analysis.error = "Required")

\* the prospect each explored text names, letter case ignored
NamedProspect(t) ==
    CASE t \in {"Bullish", "bullish", "BULLISH"} -> "Bullish"
      [] t \in {"Bearish", "bearish", "BEARISH"} -> "Bearish"
      [] t \in {"Neutral", "neutral", "NEUTRAL"} -> "Neutral"
      [] OTHER -> "none"

\* the JSON object j has its three keys, each holding a value of the kind a
\* verdict takes: a prospect name, an unsigned integer, a text
WellFormed(j) ==
    /\ j.kind = "object"
    /\ j.prospect.type = "string" /\ NamedProspect(j.prospect.text) # "none"
    /\ j.rating.type = "integer" /\ j.rating.num >= 0
    /\ j.explanation.type = "string"

\* the pipeline got an answer and handed the JSON object json_str to from_json
ParsedObject == apc = "returned" /\ completion.kind = "Ok" /\ json_str.kind = "object"

\* C21 (as claimed): whenever a field of the answer's JSON object is missing or
\* malformed (a prospect that names none of Bullish, Bearish, Neutral, a rating
\* that is no unsigned integer, an explanation that is no text), verdict parsing
\* fails with a Required error and returns no verdict.
C21_MalformedFieldIsRequired ==
    (ParsedObject /\ ~WellFormed(json_str)) =>
        (analysis.kind = "Err" /\ analysis.error = "Required")

\* C22 (as claimed): every verdict that verdict parsing returns has a rating
\* between 0 and 100; an answer whose rating is negative or above 100 gives no
\* verdict with that rating.
C22_RatingWithinRange ==
    (ParsedObject /\ analysis.kind = "Ok") =>
        (analysis.rating >= 0 /\ analysis.rating <= 100)

\* C23: parsing a JSON object whose prospect names Bullish, Bearish or Neutral
\* in any letter case, whose rating is an unsigned integer r and whose
\* explanation is a text e succeeds with exactly that prospect, r and e.
C23_WellFormedParses ==
    (ParsedObject /\ WellFormed(json_str)) =>
        analysis = [kind |-> "Ok",
                    prospect |-> NamedProspect(json_str.prospect.text),
                    rating |-> json_str.rating.num,
                    explanation |-> json_str.explanation.text]

\* C23 witness: prospect "bearish", rating 20, explanation "test" was parsed
\* into {Bearish, 20, "test"}
C23_Witness ==
    /\ ParsedObject
    /\ json_str.prospect = JStr("bearish")
    /\ json_str.rating = JInt(20)
    /\ json_str.explanation = JStr("test")
    /\ analysis = [kind |-> "Ok", prospect |-> "Bearish", rating |-> 20,
                   explanation |-> "test"]

\* the persona each explored filter string names, letter case ignored
NamedMaster(a) ==
    CASE a \in {"graham", "ben-graham"} -> "BenjaminGraham"
      [] a \in {"buffett", "BUFFETT", "warren-buffett", "Warren-Buffett"} -> "WarrenBuffett"
      [] OTHER -> "none"

\* run took the step that resolves its filter
Resolved == pc = "resolve" /\ pc' # "resolve"

\* C24: no string is a serialization of two Masters; when run resolves a filter
\* in which every string names a persona, each string gives that persona
\* whatever its letter case (aliases of one persona give the same Master); when
\* the filter holds a string that names none, run fails with NotExists.
C24_AliasResolution ==
    [][/\ \A m1, m2 \in Masters :
             m1 # m2 => Serializations(m1) \cap Serializations(m2) = {}
       /\ (Resolved /\ opt_masters # <<>>) =>
             IF \A i \in DOMAIN opt_masters : NamedMaster(opt_masters[i]) # "none"
             THEN /\ pc' = "spawn"
                  /\ masters' = [i \in DOMAIN opt_masters |-> NamedMaster(opt_masters[i])]
             ELSE /\ pc' = "done"
                  /\ result' = [kind |-> "Err", error |-> "NotExists", origin |-> 0]]_vars

\* C24 witness: the filter <<"BUFFETT", "warren-buffett">> was resolved to
\* WarrenBuffett twice
C24_Witness ==
    /\ opt_masters = <<"BUFFETT", "warren-buffett">>
    /\ pc = "spawn"
    /\ masters = <<"WarrenBuffett", "WarrenBuffett">>

(***************************************************************************)
(* Properties of the extractor.                                            *)
(***************************************************************************)
\* the text t holds a markdown fence
HasFence(t) == \E i \in DOMAIN t : t[i] = "fence"

\* the text t holds a tag block: an opening tag with a closing tag after it
HasTagBlock(t) == \E i, j \in DOMAIN t : i < j /\ t[i] = "<think>" /\ t[j] = "</think>"

\* the text t without the whitespace around it
Trimmed(t) ==
    LET inked == {i \in DOMAIN t : t[i] \notin {" ", "\n"}} IN
    IF inked = {} THEN <<>>
    ELSE SubSeq(t, CHOOSE a \in inked : \A i \in inked : a <= i,
                   CHOOSE b \in inked : \A i \in inked : b >= i)

\* C25 (as claimed): for an input that holds no fence and no tag block, the
\* extractor returns the input without its surrounding whitespace and otherwise
\* unchanged.
C25_PlainTextIsTrimmed ==
    (xpc = "done" /\ ~HasFence(arg) /\ ~HasTagBlock(arg)) => text = Trimmed(arg)

\* C26 (as claimed): for a payload that holds no fence and no tag block, the
\* extractor returns the trimmed payload from the payload alone, from the
\* payload between fence lines with or without a language hint, from either
\* after a reasoning block, and from a fenced form followed by prose.
C26_ToleratedShapes ==
    (xpc = "done" /\ ~HasFence(payload) /\ ~HasTagBlock(payload)) =>
        text = Trimmed(payload)

\* the statements of extract_code_block, in their order
ExtractOrder ==
    {<<"tags", "start">>, <<"start", "end">>, <<"end", "trim">>, <<"trim", "done">>}

\* the text t holds no tag at all
Tagless(t) == \A i \in DOMAIN t : t[i] \notin {"<think>", "</think>"}

\* C27: the extractor removes tag blocks, then the leading fence line with what
\* precedes it, then the trailing fence with what follows it, then trims; a
\* fence inside a tag block goes with the block (after the first step the
\* answer with a fenced snippet in its reasoning block has only the payload's
\* own fences left), and that answer extracts to the payload.
C27_TagsBeforeFences ==
    [][/\ xpc' # xpc => <<xpc, xpc'>> \in ExtractOrder
       /\ (xpc = "tags" /\ xpc' = "start") => ~HasTagBlock(text')
       /\ (xpc = "tags" /\ xpc' = "start" /\ shape.think = "snippet" /\ Tagless(payload)) =>
             Cardinality({i \in DOMAIN text' : text'[i] = "fence"}) =
                IF shape.fence = "none" THEN 0 ELSE 2
       /\ (xpc = "start" /\ xpc' = "end" /\ shape.fence # "none" /\ Tagless(payload)) =>
             text' = payload \o <<"\n", "fence">> \o ProsePart(shape)
       /\ (xpc = "end" /\ xpc' = "trim" /\ shape.fence # "none" /\ Tagless(payload)) =>
             \E k \in 0..Len(payload) :
                /\ text' = SubSeq(payload, 1, k)
                /\ \A i \in (k + 1)..Len(payload) : payload[i] \in {" ", "\n"}
       /\ (xpc' = "done" /\ xpc = "trim" /\ shape.think = "snippet" /\ Tagless(payload)) =>
             text' = Trimmed(payload)]_vars

\* C27 witness: the answer with a fenced snippet in its reasoning block, the
\* payload between fence lines with a language hint and prose after them was
\* extracted to its payload
C27_Witness ==
    /\ shape = [think |-> "snippet", fence |-> "hint", prose |-> TRUE]
    /\ payload = <<"x", "\n", "x">>
    /\ xpc = "done"
    /\ text = payload

(***************************************************************************)
(* Properties of the shared state of the orchestrator.                     *)
(***************************************************************************)
\* C28: once run has built the snapshot it never changes its own copy; each
\* task is spawned with a clone equal to it; and no step, of run or of any
\* task, changes the clone of any task.
C28_SnapshotImmutable ==
    [][/\ pc \notin {"start", "fetch"} => fiscal_len' = fiscal_len
       /\ \A t \in DOMAIN tasks' :
             IF t \in DOMAIN tasks
             THEN tasks'[t].stock_fiscal_metricsets = tasks[t].stock_fiscal_metricsets
             ELSE tasks'[t].stock_fiscal_metricsets = fiscal_len]_vars

\* C28 witness: two tasks hold clones of a one-period snapshot, one has run to
\* its end and the other has not started
C28_Witness ==
    /\ fiscal_len = 1
    /\ Len(tasks) = 2
    /\ tasks[1].status = "ok" /\ tasks[2].status = "spawned"
    /\ tasks[1].stock_fiscal_metricsets = 1 /\ tasks[2].stock_fiscal_metricsets = 1

\* C29: a step of a task leaves the result map alone; the map changes only in
\* an iteration of the join loop, which adds the analysis of the one identity
\* it awaited, an identity the map did not hold, and keeps the other entries.
C29_OnlyJoinLoopInserts ==
    [][/\ tasks' # tasks /\ Len(tasks') = Len(tasks) /\ pc' = pc =>
             master_analyses' = master_analyses
       /\ master_analyses' # master_analyses =>
             /\ pc = "join" /\ joinIdx' = joinIdx + 1 /\ tasks' = tasks
             /\ LET m == joinOrder[joinIdx'] IN
                  /\ m \notin DOMAIN master_analyses
                  /\ DOMAIN master_analyses' = DOMAIN master_analyses \cup {m}
                  /\ master_analyses'[m] = [by |-> handles[m]]
                  /\ \A k \in DOMAIN master_analyses :
                        master_analyses'[k] = master_analyses[k]]_vars

\* C29 witness: two tasks ran for WarrenBuffett, and the join loop inserted the
\* one analysis it awaited before run returned the map
C29_Witness ==
    /\ Len(tasks) = 2
    /\ tasks[1].status = "ok" /\ tasks[2].status = "ok"
    /\ pc = "done"
    /\ result.kind = "Ok"
    /\ DOMAIN master_analyses = {"WarrenBuffett"}

(***************************************************************************)
(* Properties of the request body.                                         *)
(***************************************************************************)
\* the explored model names of the qwen3 family
Qwen3Family == {<<"q", "w", "e", "n", "3">>, <<"q", "w", "e", "n", "3", "-", "8", "b">>}

\* the content of message i in the request, as the claim has it
C30_Content(i) ==
    IF model \in Qwen3Family /\ i = Len(chat_messages)
    THEN chat_messages[i].content \o (IF enable_think THEN " /think" ELSE " /no_think")
    ELSE chat_messages[i].content

\* C30: the request holds one message per given message, in order; for a model
\* name that starts with qwen3 the content of the last one is the given content
\* followed by " /think" (enable_think) or " /no_think", and every other
\* content is the given one; for another model name, or an empty list, every
\* content is the given one.
C30_ThinkInstructionOnLastOnly ==
    rpc = "built" =>
        /\ Len(messages_json_value) = Len(chat_messages)
        /\ \A i \in DOMAIN chat_messages :
              /\ messages_json_value[i].content.type = "string"
              /\ messages_json_value[i].content.text = C30_Content(i)

\* C30 witness: for qwen3-8b with thinking off, the request built from two
\* messages has " /no_think" after the second content and the first as given
C30_Witness ==
    /\ rpc = "built"
    /\ model = <<"q", "w", "e", "n", "3", "-", "8", "b">>
    /\ ~enable_think
    /\ Len(chat_messages) = 2
    /\ chat_messages[1].content = "hi" /\ chat_messages[2].content = "hi"
    /\ messages_json_value[1].content.text = "hi"
    /\ messages_json_value[2].content.text = "hi /no_think"

(***************************************************************************)
(* Properties of the provider configuration.                               *)
(***************************************************************************)
\* the value of field k after the given options are merged into the
\* configuration that was stored (every field empty when none was)
Merged(k) ==
    IF options[k] = <<"none">> THEN previous[k] ELSE Trimmed(options[k])

\* the merge was reached and left base URL, API key or model empty
MergedEmpty ==
    /\ protocol \in {"OpenAI", "openai"}
    /\ \E k \in {"base_url", "api_key", "model"} : Merged(k) = <<>>

\* the file holds a configuration with an empty required field
HoldsEmpty(file) ==
    file.exists /\ (file.base_url = <<>> \/ file.api_key = <<>> \/ file.model = <<>>)

JoinPosition(t) == CHOOSE i \in 1..Len(joinOrder) : handles[joinOrder[i]] = t

\* C32: the failure run returns is that of the task the join loop awaited last,
\* every task before it in the iteration order of the handle map has terminated
\* with a verdict, and while the task awaited next is still running run does
\* not return, whatever tasks later in the order have already failed.
C32_FirstFailureInJoinOrder ==
    /\ (result.kind = "Err" /\ result.origin # 0) =>
          /\ \E i \in 1..Len(joinOrder) : handles[joinOrder[i]] = result.origin
          /\ joinIdx = JoinPosition(result.origin)
          /\ tasks[result.origin].status \in Terminated \ {"ok"}
          /\ \A i \in 1..(joinIdx - 1) : tasks[handles[joinOrder[i]]].status = "ok"
    /\ (pc = "join" /\ joinIdx < Len(joinOrder)
          /\ tasks[handles[joinOrder[joinIdx + 1]]].status \notin Terminated) =>
         ~ ENABLED JoinNext

\* C32 witness: a task later in the join order has already failed while the
\* task the loop awaits is still running, and run has not returned
C32_Witness ==
    /\ pc = "join"
    /\ joinIdx < Len(joinOrder)
    /\ result.kind = "none"
    /\ tasks[handles[joinOrder[joinIdx + 1]]].status \notin Terminated
    /\ \E i \in (joinIdx + 2)..Len(joinOrder) :
          tasks[handles[joinOrder[i]]].status \in Terminated \ {"ok"}

\* the errors with which the building of the snapshot fails in run itself
SnapshotFailure ==
    /\ result.kind = "Err"
    /\ result.origin = 0
    /\ result.error \in {"Invalid", "HttpRequestError"}

\* C34: when the ticker does not parse or a snapshot fetch fails, run has
\* returned that error, no analyzer was resolved or spawned, no handle exists,
\* the only requests made are the snapshot fetches up to the failing one, and
\* nothing further happens.
C34_SnapshotFailureStartsNothing ==
    SnapshotFailure =>
        /\ pc = "done"
        /\ masters = <<>>
        /\ tasks = <<>>
        /\ handles = EmptyMap
        /\ netCalls <= FetchTotal(backward_days)
        /\ result.error = "Invalid" => netCalls = 0
        /\ ~ ENABLED NextEval

\* C34 witness: the fetch of a fiscal quarter failed after the three earlier
\* fetches, and run returned the error with no task spawned
C34_Witness ==
    /\ pc = "done"
    /\ result = Err("HttpRequestError", 0)
    /\ netCalls = 4
    /\ tasks = <<>>

\* C39 (as claimed): with backward_days below 91, a ticker that parses, fetches
\* that succeed and a filter that resolves, the snapshot has no fiscal period
\* and run returns the analyzers' NoData error, no task having made a
\* completion request.
C39_ShortWindowGivesNoData ==
    (pc = "done" /\ backward_days < 91 /\ Len(masters) > 0) =>
        /\ fiscal_len = 0
        /\ result.kind = "Err"
        /\ result.error = "NoData"
        /\ \A t \in DOMAIN tasks : tasks[t].requests = 0

\* the fence markers in text t
FenceCount(t) == Cardinality({i \in DOMAIN t : t[i] = Fence})

\* C40: once the closing-fence statement of extract_code_block has run, and so
\* in the text it returns, there is no fence marker, whatever the input.
C40_OutputHasNoFence ==
    xpc \in {"trim", "done"} => FenceCount(text) = 0

\* C40 witness: an answer with an opening and a closing fence, and with fences
\* inside its reasoning block, gave a text that is not empty
C40_Witness ==
    /\ xpc = "done"
    /\ shape.think = "snippet"
    /\ shape.fence = "hint"
    /\ FenceCount(arg) = 4
    /\ text = payload
    /\ text # <<>>

\* C33 (as claimed): a sub-analysis none of whose criteria had an adjacent pair
\* of periods carrying its metric returns score None, and a returned score of
\* 0 means that at least one criterion was evaluated.
C33_NoneWhenNothingEvaluated ==
    spc = "returned" =>
        /\ evaluated = 0 => ~draft.some
        /\ (draft.some /\ draft.scores = 0) => evaluated >= 1

\* the pieces of frame k that chunk number c holds
PartsIn(k, c) == {chunks[c][i].part : i \in {j \in DOMAIN chunks[c] : chunks[c][j].frame = k}}

\* the line "data: [DONE]" of frame k lies whole in chunk number c
DoneLineIn(k, c) ==
    /\ frames[k] = Done
    /\ {"da", "ta: ", "head", "tail"} \subseteq PartsIn(k, c)

\* C37 (as claimed): no event is sent for a frame that follows a [DONE] frame
\* in the response, however the response is divided into chunks.
C37_NothingAfterDone ==
    \A i \in DOMAIN emitted :
        ~ \E k \in 1..(emitted[i].frame - 1) : frames[k] = Done

\* C37 (amended): no event is sent for a frame that follows a [DONE] line in
\* the chunk that holds that line whole.
C37_NothingAfterDoneInChunk ==
    \A i \in DOMAIN emitted :
        ~ \E k \in 1..(emitted[i].frame - 1) : DoneLineIn(k, emitted[i].chunk)

\* C37 witness: [DONE] and the frame after it arrived in one chunk, and the
\* producer ended without an event
C37_Witness ==
    /\ hpc = "ended"
    /\ frames = <<Done, Delta(JStr("A"), JNull)>>
    /\ Len(chunks) = 1
    /\ emitted = <<>>

\* frame k is divided by a chunk boundary before the end of its line
SplitFrame(k) ==
    \E c \in DOMAIN chunks :
        /\ PartsIn(k, c) \cap {"da", "ta: ", "head", "tail"} # {}
        /\ ~ ({"da", "ta: ", "head", "tail"} \subseteq PartsIn(k, c))

\* C38 (as claimed): for a response of well-formed frames no Error event is
\* sent wherever the chunk boundaries fall, a frame divided by a boundary gives
\* no event at all, and chat_completion does not fail.
C38_ChunkingGivesNoError ==
    /\ \A i \in DOMAIN emitted :
          /\ emitted[i].event.type # "Error"
          /\ ~ SplitFrame(emitted[i].frame)
    /\ hpc = "returned" => reply.kind = "Ok"

\* C36 (as claimed): once the stream has been returned the producer task
\* eventually ends, whatever the consumer does.
C36_ProducerAlwaysEnds ==
    (ret.kind = "Ok") ~> (ppc = "exit")

\* C36 (amended): the producer task ends once the consumer has closed or
\* dropped the stream, and when the consumer keeps calling next(); otherwise it
\* ends or is left suspended in send on a full buffer that the consumer holds
\* open without reading.
C36_ProducerEndsUnlessHeldFull ==
    /\ (rx \in {"closed", "dropped"}) ~> (ppc = "exit")
    /\ WF_vars(ConsumerNext) => ((ret.kind = "Ok") ~> (ppc = "exit"))
    /\ (ret.kind = "Ok") ~> (ppc = "exit" \/ ProducerSuspended)

\* C36 witness: the consumer closed the stream while the producer was suspended
\* in send, and the producer has ended
C36_Witness ==
    /\ ppc = "exit"
    /\ rx = "closed"
    /\ Len(produced) > Len(received) + Len(chan)
    /\ budget = 0

\* run has returned and every task it spawned has terminated
EvaluationOver ==
    /\ pc = "done"
    /\ result.kind \in {"Ok", "Err"}
    /\ \A t \in DOMAIN tasks : tasks[t].status \in Terminated

\* chat_completion has returned and the producer task of its session has ended
CompletionOver ==
    /\ cpc = "returned"
    /\ message.kind \in {"Ok", "Err"}
    /\ ppc \in {"none", "exit"}

\* C35: under fair scheduling an evaluation eventually has returned a result or
\* an error with every analyzer task terminated, and a completion eventually
\* has returned with its producer task ended: neither the join loop nor the
\* event channel leaves a party waiting for ever.
C35_EvaluateTerminates ==
    /\ (cpc = "idle") => <>[]EvaluationOver
    /\ (cpc # "idle") => <>[]CompletionOver

\* C35 witness: a completion returned early on an Error event while the
\* producer was suspended in send, and the producer has ended since
C35_Witness ==
    /\ cpc = "returned"
    /\ message.kind = "Err"
    /\ ppc = "exit"
    /\ Len(produced) > Len(received)

=========================================================================
